---------------------------- MODULE Spec2Model ----------------------------
(***************************************************************************)
(* Model of the turn segmenter of cctime: analyzeAssistantSequences        *)
(* (assistant-sequence-analyzer, gap-tolerant variant).                    *)
(*                                                                         *)
(* A transcript is a sequence of raw JSON entries.  The analyzer scans it  *)
(* left to right: the outer loop looks for a genuine user message, the     *)
(* inner loop collects the assistant activity that follows it.             *)
(*                                                                         *)
(* Conventions:                                                            *)
(*  - positions are 1-based; 0 stands for the source's index -1;           *)
(*  - a timestamp is the value of new Date(ts).getTime(), in milliseconds; *)
(*  - a JS string is represented by a TLA+ string; the strings that occur  *)
(*    are either one of the three synthetic markers or contain none, so    *)
(*    String.includes(marker) is equality with the marker;                 *)
(*  - the emitted record keeps the numeric fields of AssistantSequence and *)
(*    adds the positions i, firstAssistantIndex and lastAssistantIndex of  *)
(*    the scan that produced it (userMessage, a display string, is left    *)
(*    out).                                                                *)
(***************************************************************************)
EXTENDS Integers, Sequences, FiniteSets, TLC

\* Longest transcript explored.
MaxLen == 4

\* const MAX_GAP_MS = 15 * 60 * 1000
MAX_GAP_MS == 15 * 60 * 1000

\* Timestamps (ms): t0, t0 + 15 min (exactly the threshold), t0 + 20 min.
Times == {0, 900000, 1200000}

SyntheticMarkers == {"<command-", "<system-reminder>", "<user-prompt-submit-hook>"}

-----------------------------------------------------------------------------
(* Raw entries                                                             *)

\* One element of a message's content array.
TextItem(s)    == [type |-> "text", tool_use_id |-> FALSE, text |-> s]
ToolResultItem == [type |-> "tool_result", tool_use_id |-> TRUE, text |-> ""]
ToolUseItem    == [type |-> "tool_use", tool_use_id |-> FALSE, text |-> ""]
ImageItem      == [type |-> "image", tool_use_id |-> FALSE, text |-> ""]

\* entry.message: absent, a string, or an object {role, content, text}.
NoMessage      == [form |-> "absent", str |-> "", role |-> "", content |-> "absent",
                   cstr |-> "", items |-> <<>>, text |-> ""]
StringMessage(s) == [form |-> "string", str |-> s, role |-> "", content |-> "absent",
                   cstr |-> "", items |-> <<>>, text |-> ""]
ContentStringMessage(r, s) == [form |-> "object", str |-> "", role |-> r,
                   content |-> "string", cstr |-> s, items |-> <<>>, text |-> ""]
ContentArrayMessage(r, its) == [form |-> "object", str |-> "", role |-> r,
                   content |-> "array", cstr |-> "", items |-> its, text |-> ""]

Entry(ty, ts, compact, msg) ==
    [type |-> ty, timestamp |-> ts, isCompactSummary |-> compact, message |-> msg]

\* The shapes of entry that occur in transcripts.
UserText(ts)       == Entry("user", ts, FALSE, StringMessage("hello"))
UserContent(ts)    == Entry("user", ts, FALSE, ContentStringMessage("user", "hello"))
ToolResult(ts)     == Entry("user", ts, FALSE,
                            ContentArrayMessage("user", <<ToolResultItem>>))
Assistant(ts)      == Entry("assistant", ts, FALSE,
                            ContentArrayMessage("assistant", <<TextItem("ok"), ToolUseItem>>))
AssistantBare(ts)  == Entry("assistant", ts, FALSE, NoMessage)
CompactSummary(ts) == Entry("user", ts, TRUE, StringMessage("summary"))
Synthetic(ts)      == Entry("user", ts, FALSE, StringMessage("<system-reminder>"))
UserImage(ts)      == Entry("user", ts, FALSE,
                            ContentArrayMessage("user", <<ImageItem>>))
UserNoRole(ts)     == Entry("user", ts, FALSE, ContentStringMessage("", "hello"))

\* Entries whose timestamps vary, and entries read at a fixed timestamp.
TimedEntries == { UserText(t) : t \in Times } \cup { ToolResult(t) : t \in Times }
                \cup { Assistant(t) : t \in Times }
OtherEntries == { UserContent(0), AssistantBare(900000), CompactSummary(900000),
                  Synthetic(0), UserImage(0), UserNoRole(0) }
Entries == TimedEntries \cup OtherEntries

-----------------------------------------------------------------------------
(* JavaScript predicates on a message                                      *)

\* if (message): absent and the empty string are falsy.
Truthy(m) == m.form = "object" \/ (m.form = "string" /\ m.str # "")

\* typeof message === 'string'
IsString(m) == m.form = "string"

\* if (message.content): an array is truthy even when empty.
ContentTruthy(m) ==
    m.form = "object" /\ (m.content = "array" \/ (m.content = "string" /\ m.cstr # ""))

\* s.includes('<command-') || s.includes('<system-reminder>') || ...
IsSyntheticText(s) == s \in SyntheticMarkers

\* content.some(c => c.tool_use_id || c.type === 'tool_result')
HasToolResult(items) ==
    \E k \in 1..Len(items) : items[k].tool_use_id \/ items[k].type = "tool_result"

\* content.filter(c => c.type === 'tool_use').length
RECURSIVE CountToolUses(_)
CountToolUses(items) ==
    IF items = <<>> THEN 0
    ELSE (IF Head(items).type = "tool_use" THEN 1 ELSE 0) + CountToolUses(Tail(items))

\* The text parts of a content array joined and trimmed; it is non-empty iff
\* some part is, and is represented here by its first non-empty part.
RECURSIVE TextContent(_)
TextContent(items) ==
    IF items = <<>> THEN ""
    ELSE IF Head(items).type = "text" /\ ~Head(items).tool_use_id /\ Head(items).text # ""
         THEN Head(items).text
         ELSE TextContent(Tail(items))

extractMessageText(m) ==
    IF IsString(m) THEN m.str
    ELSE IF m.form = "object" /\ m.content = "string" /\ m.cstr # "" THEN m.cstr
    ELSE IF m.form = "object" /\ m.content = "array" /\ TextContent(m.items) # ""
         THEN TextContent(m.items)
    ELSE IF m.form = "object" /\ m.content = "array"
            /\ (\E k \in 1..Len(m.items) : m.items[k].type = "tool_result")
         THEN "[Tool result response]"
    ELSE IF m.form = "object" /\ m.text # "" THEN m.text
    ELSE "[No text content]"

-----------------------------------------------------------------------------
(* Outer loop: is rawEntries[i] a genuine user message?                    *)

\* The chain of tests that lets the outer loop treat an entry as the user
\* message that opens a sequence; every failed test is an i++ / continue.
Qualifies(e) ==
    LET m == e.message IN
    /\ e.type = "user" /\ Truthy(m)
    /\ ~e.isCompactSummary
    /\ ~(IsString(m) /\ IsSyntheticText(m.str))
    /\ ~(m.role = "user" /\ ContentTruthy(m) /\ m.content = "array"
         /\ HasToolResult(m.items))
    /\ (IsString(m) \/ ~(m.role = "" /\ ~ContentTruthy(m)))
    /\ extractMessageText(m) \notin {"", "[No text content]"}

-----------------------------------------------------------------------------
(* Inner loop: one entry rawEntries[j] after the user message              *)

\* UserScan without the isCompactSummary test: a continuation marker is
\* handled like any other user entry.
UserScanNoCompact(e) ==
    LET m == e.message IN
    IF e.type # "user" THEN "fall"
    ELSE IF Truthy(m) /\ IsString(m)
         THEN (IF IsSyntheticText(m.str) THEN "continue" ELSE "break")
    ELSE IF Truthy(m) /\ m.role = "user" /\ ContentTruthy(m)
         THEN (IF m.content = "string" THEN "break"
               ELSE IF ~HasToolResult(m.items) THEN "break"
               ELSE "fall")
    ELSE "fall"

\* UserScan without the hasToolResult test: every user entry with array
\* content ends the sequence.
UserScanArrayBreaks(e) ==
    LET m == e.message IN
    IF e.type # "user" THEN "fall"
    ELSE IF e.isCompactSummary THEN "continue"
    ELSE IF Truthy(m) /\ IsString(m)
         THEN (IF IsSyntheticText(m.str) THEN "continue" ELSE "break")
    ELSE IF Truthy(m) /\ m.role = "user" /\ ContentTruthy(m)
         THEN "break"
    ELSE "fall"

\* What the block `if (entry.type === 'user') { ... }` does with the entry:
\* "continue" (skip it), "break" (a real user message ends the sequence) or
\* "fall" (go on to the assistant and tool-result handling).
UserScan(e) ==
    LET m == e.message IN
    IF e.type # "user" THEN "fall"
    ELSE IF e.isCompactSummary THEN "continue"
    ELSE IF Truthy(m) /\ IsString(m)
         THEN (IF IsSyntheticText(m.str) THEN "continue" ELSE "break")
    ELSE IF Truthy(m) /\ m.role = "user" /\ ContentTruthy(m)
         THEN (IF m.content = "string" THEN "break"
               ELSE IF ~HasToolResult(m.items) THEN "break"
               ELSE "fall")
    ELSE "fall"

\* new Date(ts).getTime() of a timestamp that is missing or does not parse
\* is NaN; it is represented by a number that no timestamp and no difference
\* of timestamps takes.
NaN == -1

\* a.getTime() - b.getTime(): NaN as soon as one operand is.
TimeDiff(a, b) == IF a = NaN \/ b = NaN THEN NaN ELSE a - b

\* The gap test of the variant of the analyzer that has no gap timeout.
ExceedsGapNever(currentTime, previousTime) == FALSE

\* gapMs > MAX_GAP_MS (a comparison with NaN is false)
ExceedsGap(currentTime, previousTime) ==
    LET gapMs == TimeDiff(currentTime, previousTime)
    IN  gapMs # NaN /\ gapMs > MAX_GAP_MS

\* Tool results that leave previousAssistantTime alone.
UpdatesGapClockNever(e) == FALSE

\* The tool-result test that refreshes previousAssistantTime.
UpdatesGapClock(e) ==
    LET m == e.message IN
    /\ e.type = "user" /\ Truthy(m)
    /\ m.role = "user" /\ ContentTruthy(m) /\ m.content = "array"
    /\ HasToolResult(m.items)

\* Does an assistant entry add to messageCount: if (entry.message)
CountsAsMessage(e) == Truthy(e.message)

\* The locals of the inner loop when it starts.  hasPrevious = FALSE is
\* previousAssistantTime === null; endIndex and endReason record how the
\* loop was left.
NewBurst(i) ==
    [i |-> i, firstAssistantIndex |-> 0, lastAssistantIndex |-> 0,
     messageCount |-> 0, toolUseCount |-> 0,
     hasPrevious |-> FALSE, previousAssistantTime |-> 0,
     endIndex |-> 0, endReason |-> "open"]

\* The assistant branch after the gap test passed.
TrackAssistant(b, e, j) ==
    [b EXCEPT !.firstAssistantIndex = IF @ = 0 THEN j ELSE @,
              !.lastAssistantIndex = j,
              !.hasPrevious = TRUE,
              !.previousAssistantTime = e.timestamp,
              !.messageCount = IF CountsAsMessage(e) THEN @ + 1 ELSE @,
              !.toolUseCount = IF CountsAsMessage(e) /\ e.message.content = "array"
                               THEN @ + CountToolUses(e.message.items) ELSE @]

\* for (let j = i + 1; j < rawEntries.length; j++) { ... }
RECURSIVE ScanBurst(_, _, _)
ScanBurst(raw, j, b) ==
    IF j > Len(raw) THEN [b EXCEPT !.endIndex = j, !.endReason = "eof"]
    ELSE LET e == raw[j]
             us == UserScan(e)
         IN  IF us = "continue" THEN ScanBurst(raw, j + 1, b)
             ELSE IF us = "break" THEN [b EXCEPT !.endIndex = j, !.endReason = "user"]
             ELSE IF e.type = "assistant"
                     /\ b.hasPrevious /\ ExceedsGap(e.timestamp, b.previousAssistantTime)
                  THEN [b EXCEPT !.endIndex = j, !.endReason = "gap"]
             ELSE IF e.type = "assistant"
                  THEN ScanBurst(raw, j + 1, TrackAssistant(b, e, j))
             ELSE IF UpdatesGapClock(e)
                  THEN ScanBurst(raw, j + 1,
                                 [b EXCEPT !.hasPrevious = TRUE,
                                           !.previousAssistantTime = e.timestamp])
             ELSE ScanBurst(raw, j + 1, b)

\* Emitting only the sequences that were closed before the end of the file.
ShouldEmitUnlessOpen(b) == b.firstAssistantIndex # 0 /\ b.endReason # "eof"

\* if (firstAssistantIndex !== -1 && lastAssistantIndex !== -1)
ShouldEmit(b) == b.firstAssistantIndex # 0 /\ b.lastAssistantIndex # 0

\* The record pushed onto sequences.
MakeSequence(raw, b) ==
    [userTimestamp |-> raw[b.i].timestamp,
     firstAssistantTimestamp |-> raw[b.firstAssistantIndex].timestamp,
     lastAssistantTimestamp |-> raw[b.lastAssistantIndex].timestamp,
     responseTimeMs |-> TimeDiff(raw[b.firstAssistantIndex].timestamp,
                                 raw[b.i].timestamp),
     durationMs |-> TimeDiff(raw[b.lastAssistantIndex].timestamp,
                             raw[b.firstAssistantIndex].timestamp),
     messageCount |-> b.messageCount,
     toolUseCount |-> b.toolUseCount,
     i |-> b.i,
     firstAssistantIndex |-> b.firstAssistantIndex,
     lastAssistantIndex |-> b.lastAssistantIndex]

\* A cursor that moves to the entry after the user message, whatever was
\* scanned.
NextCursorAfterTrigger(b) == b.i + 1

\* A cursor that stays on the user message when no assistant entry follows.
NextCursorStuck(b) == IF b.lastAssistantIndex # 0 THEN b.lastAssistantIndex + 1 ELSE b.i

\* i = lastAssistantIndex !== -1 ? lastAssistantIndex + 1 : i + 1
NextCursor(b) == IF b.lastAssistantIndex # 0 THEN b.lastAssistantIndex + 1 ELSE b.i + 1

\* while (i < rawEntries.length) { ... }: the sequences pushed, together with
\* the history of the inner loops that were run (scans).
RECURSIVE ScanFrom(_, _, _)
ScanFrom(raw, i, acc) ==
    IF i > Len(raw) THEN acc
    ELSE IF ~Qualifies(raw[i]) THEN ScanFrom(raw, i + 1, acc)
    ELSE LET b == ScanBurst(raw, i + 1, NewBurst(i))
         IN  ScanFrom(raw, NextCursor(b),
                      [sequences |-> IF ShouldEmit(b)
                                     THEN Append(acc.sequences, MakeSequence(raw, b))
                                     ELSE acc.sequences,
                       scans |-> Append(acc.scans, b)])

AnalyzeEntries(raw) == ScanFrom(raw, 1, [sequences |-> <<>>, scans |-> <<>>])

-----------------------------------------------------------------------------
(* The cache manager and the session watcher after construction            *)

\* The session files the cache is asked about.
Paths == {"a", "b"}

\* new CacheManager(): an empty in-memory map, over a cache directory that
\* holds no entry; both session files at their first content; nothing was
\* computed and nothing was asked yet.
NewCacheManager ==
    [files    |-> [p \in Paths |-> 1],
     now      |-> 0,
     cache    |-> <<>>,
     disk     |-> <<>>,
     computed |-> [pc |-> "none"],
     got      |-> [pc |-> "none"],
     history  |-> <<>>]

\* The session files of the watched directory.
WatchPaths == {"s.jsonl"}

\* new SessionWatcher(options): no fs watcher, no poll timer, no known file,
\* no debounce timer, no callback.  dir is the watched directory: 0 for a
\* file that does not exist, 1 or 2 for its lastModified and size.  scans and
\* handlers are the calls of scanFiles and the debounced handlers that wait
\* for finder.find(), each with what find() saw; delivered is the last event
\* handed to the callbacks for each path.
NewSessionWatcher ==
    [pc |-> "new",
     closed |-> FALSE,
     dir |-> [p \in WatchPaths |-> 0],
     watcher |-> FALSE,
     fsActive |-> FALSE,
     pollTimer |-> FALSE,
     timerActive |-> FALSE,
     knownFiles |-> [p \in WatchPaths |-> 0],
     debounceTimers |-> {},
     callbacks |-> FALSE,
     startScan |-> [p \in WatchPaths |-> 0],
     scans |-> {},
     handlers |-> {},
     delivered |-> [p \in WatchPaths |->
                      [event |-> "none", known |-> FALSE, prev |-> "none"]],
     invokedAfterClose |-> FALSE]

-----------------------------------------------------------------------------
(* The analyzer as a state machine                                         *)

VARIABLES
    rawEntries,   \* the entries parsed from the file so far
    pc,           \* "reading" the lines, or "done" with the scan
    sequences,    \* the AssistantSequence records pushed by the scan
    scans,        \* history: the inner loops the scan ran, in order
    cursor,       \* the outer index i of a scan run step by step (0: not started)
    fileLines,    \* the lines of a transcript file handed to the parser
    parser,       \* what parseTranscriptFile and the analyzer's line loop did
    responseTimes,\* the ResponseTime records handed to the aggregator
    aggregated,   \* the ProcessedData and the Metrics computed from them
    sessions,     \* the lastModified instants handed to calculateStreaks
    streakInfo,   \* the StreakInfo it returned, with the clock it read
    cacheManager, \* a CacheManager, the session files it hashes and its caller
    watcher       \* a SessionWatcher, its timers and the directory it watches

segVars == <<rawEntries, pc, sequences, scans, cursor>>
parseVars == <<fileLines, parser>>
aggVars == <<responseTimes, aggregated>>
streakVars == <<sessions, streakInfo>>
cacheVars == <<cacheManager>>
watchVars == <<watcher>>

vars == <<rawEntries, pc, sequences, scans, cursor, fileLines, parser,
          responseTimes, aggregated, sessions, streakInfo, cacheManager, watcher>>

Init ==
    /\ rawEntries = <<>>
    /\ pc = "reading"
    /\ sequences = <<>>
    /\ scans = <<>>
    /\ cursor = 0
    /\ fileLines = <<>>
    /\ parser = [file |-> "idle", analyzer |-> "idle"]
    /\ responseTimes = <<>>
    /\ aggregated = [pc |-> "idle"]
    /\ sessions = <<>>
    /\ streakInfo = [pc |-> "idle"]
    /\ cacheManager = NewCacheManager
    /\ watcher = NewSessionWatcher

\* for (const line of lines) { rawEntries.push(JSON.parse(line)) }
ReadLine(e) ==
    /\ pc = "reading"
    /\ Len(rawEntries) < MaxLen
    /\ rawEntries' = Append(rawEntries, e)
    /\ UNCHANGED <<pc, sequences, scans, cursor>>
    /\ UNCHANGED <<parseVars, aggVars, streakVars, cacheVars, watchVars>>

\* The while loop over rawEntries, run to the end of the entries.
Analyze ==
    /\ pc = "reading"
    /\ LET r == AnalyzeEntries(rawEntries)
       IN  /\ sequences' = r.sequences
           /\ scans' = r.scans
    /\ pc' = "done"
    /\ UNCHANGED <<rawEntries, cursor>>
    /\ UNCHANGED <<parseVars, aggVars, streakVars, cacheVars, watchVars>>

Next ==
    \/ \E e \in Entries : ReadLine(e)
    \/ Analyze

Spec == Init /\ [][Next]_vars

\* Transcripts in which a user or an assistant entry may have a timestamp
\* that is missing or unparsable.  The line loop pushes every line that
\* JSON.parse accepts, whatever its fields.
TsTimes == {0, 900000, NaN}
TsEntries == { UserText(t) : t \in TsTimes } \cup { Assistant(t) : t \in TsTimes }
             \cup { ToolResult(0) }

NextTs ==
    \/ \E e \in TsEntries : ReadLine(e)
    \/ Analyze

SpecTs == Init /\ [][NextTs]_vars

-----------------------------------------------------------------------------
(* Vocabulary of the properties                                            *)

Done == pc = "done"

Positions == 1..Len(rawEntries)

IsAssistant(e) == e.type = "assistant"

\* A user-kind record that answers a tool call: it carries a tool
\* correlation id or a tool-result marker.
IsToolResultEntry(e) ==
    /\ e.type = "user"
    /\ e.message.content = "array"
    /\ \E k \in 1..Len(e.message.items) :
          e.message.items[k].tool_use_id \/ e.message.items[k].type = "tool_result"

\* Assistant activity of the burst opened at i that precedes position k:
\* the assistant events and the tool-result events strictly between them.
ActivityBefore(raw, i, k) ==
    { m \in (i + 1)..(k - 1) : IsAssistant(raw[m]) \/ IsToolResultEntry(raw[m]) }

SetMax(S) == CHOOSE x \in S : \A y \in S : y <= x

SetMin(S) == CHOOSE x \in S : \A y \in S : x <= y

\* Timestamp of the most recent activity before k (ActivityBefore non-empty).
PreviousActivityTime(raw, i, k) == raw[SetMax(ActivityBefore(raw, i, k))].timestamp

\* Position k lies inside the burst of some emitted Turn.
InSomeTurn(k) ==
    \E n \in 1..Len(sequences) :
       sequences[n].firstAssistantIndex <= k /\ k <= sequences[n].lastAssistantIndex

\* What a Turn reports, without the positions.
Summary(seqs) ==
    [n \in 1..Len(seqs) |->
        [userTimestamp |-> seqs[n].userTimestamp,
         firstAssistantTimestamp |-> seqs[n].firstAssistantTimestamp,
         lastAssistantTimestamp |-> seqs[n].lastAssistantTimestamp,
         messageCount |-> seqs[n].messageCount,
         toolUseCount |-> seqs[n].toolUseCount]]

RemoveAt(raw, p) == SubSeq(raw, 1, p - 1) \o SubSeq(raw, p + 1, Len(raw))

-----------------------------------------------------------------------------
(* Claims                                                                  *)

\* C1: no emitted Turn has a negative responseLatency (first assistant
\* timestamp minus trigger timestamp), whatever the order of the timestamps.
C1_NonNegativeLatency ==
    Done => \A n \in 1..Len(sequences) : sequences[n].responseTimeMs >= 0

\* C2: every emitted Turn has firstResponseTimestamp <= lastResponseTimestamp,
\* whatever the order of the timestamps.
C2_FirstNotAfterLast ==
    Done => \A n \in 1..Len(sequences) :
               sequences[n].firstAssistantTimestamp <= sequences[n].lastAssistantTimestamp

C4_GapRuleAtToolResults ==
    Done =>
      \A n \in 1..Len(sequences) :
         LET t == sequences[n] IN
         \A k \in (t.firstAssistantIndex + 1)..(t.lastAssistantIndex - 1) :
            IsToolResultEntry(rawEntries[k])
            => rawEntries[k].timestamp - PreviousActivityTime(rawEntries, t.i, k)
               <= MAX_GAP_MS

C6_ToolResultResetsGapClock ==
    Done =>
      \A s \in 1..Len(scans) :
         LET b == scans[s] IN
         b.endReason = "gap" =>
           /\ ActivityBefore(rawEntries, b.i, b.endIndex) # {}
           /\ rawEntries[b.endIndex].timestamp
                - PreviousActivityTime(rawEntries, b.i, b.endIndex) > MAX_GAP_MS

\* A Turn holds an assistant event that is more than 15 minutes after the
\* previous assistant event and at most 15 minutes after a tool-result event
\* between the two.
C6_Witness ==
    /\ Done
    /\ \E n \in 1..Len(sequences) : \E a, p, k \in Positions :
          /\ sequences[n].firstAssistantIndex <= a /\ a < p /\ p < k
          /\ k <= sequences[n].lastAssistantIndex
          /\ IsAssistant(rawEntries[a]) /\ IsAssistant(rawEntries[k])
          /\ IsToolResultEntry(rawEntries[p])
          /\ \A m \in (a + 1)..(k - 1) : ~IsAssistant(rawEntries[m])
          /\ rawEntries[k].timestamp - rawEntries[a].timestamp > MAX_GAP_MS
          /\ rawEntries[k].timestamp - rawEntries[p].timestamp <= MAX_GAP_MS

\* C7: inside an open burst a user event ends the burst if and only if it
\* qualifies as a trigger by the rule used while seeking.
C7_SameQualificationInBurst ==
    Done =>
      \A s \in 1..Len(scans) :
         LET b == scans[s] IN
         \A k \in (b.i + 1)..b.endIndex :
            (k <= Len(rawEntries) /\ rawEntries[k].type = "user")
            => ( (b.endIndex = k /\ b.endReason = "user") <=> Qualifies(rawEntries[k]) )

\* C8: a continuation marker (isCompactSummary) is skipped entirely.  It is
\* never a Turn's trigger; a transcript whose only user events are
\* continuation markers yields no Turn; and the Turns of a transcript are
\* those of the transcript with its continuation markers removed, so a marker
\* between two assistant events of a burst leaves both in the same Turn.
C8_ContinuationMarkersSkipped ==
    Done =>
      /\ \A n \in 1..Len(sequences) : ~rawEntries[sequences[n].i].isCompactSummary
      /\ (\A k \in Positions :
             rawEntries[k].type = "user" => rawEntries[k].isCompactSummary)
         => sequences = <<>>
      /\ LET IsReal(e) == ~(e.type = "user" /\ e.isCompactSummary)
         IN  Summary(sequences)
               = Summary(AnalyzeEntries(SelectSeq(rawEntries, IsReal)).sequences)

\* A continuation marker lies between two assistant events of one Turn.
C8_Witness ==
    /\ Done
    /\ \E n \in 1..Len(sequences) : \E p \in Positions :
          /\ sequences[n].firstAssistantIndex < p
          /\ p < sequences[n].lastAssistantIndex
          /\ rawEntries[p].type = "user" /\ rawEntries[p].isCompactSummary
          /\ sequences[n].messageCount = 2

\* C9: a Turn is emitted for a trigger if and only if at least one assistant
\* event was recorded in its burst before the burst ended, whether it ended at
\* a user message, at a gap or at the end of the transcript; every emitted
\* Turn starts at a qualifying user message and spans assistant events.
C9_EmittedIffActivity ==
    Done =>
      /\ \A s \in 1..Len(scans) :
            LET b == scans[s] IN
            (\E k \in (b.i + 1)..(b.endIndex - 1) : IsAssistant(rawEntries[k]))
            <=> (\E n \in 1..Len(sequences) : sequences[n].i = b.i)
      /\ \A n \in 1..Len(sequences) :
            LET t == sequences[n] IN
            /\ Qualifies(rawEntries[t.i])
            /\ t.i < t.firstAssistantIndex
            /\ t.firstAssistantIndex <= t.lastAssistantIndex
            /\ IsAssistant(rawEntries[t.firstAssistantIndex])
            /\ IsAssistant(rawEntries[t.lastAssistantIndex])
            /\ \E s \in 1..Len(scans) : scans[s].i = t.i

\* One trigger had no assistant activity and produced no Turn, and a burst
\* still open at the end of the transcript was emitted.
C9_Witness ==
    /\ Done
    /\ \E s \in 1..Len(scans) :
          /\ scans[s].firstAssistantIndex = 0
          /\ \A n \in 1..Len(sequences) : sequences[n].i # scans[s].i
    /\ \E s \in 1..Len(scans) :
          /\ scans[s].endReason = "eof"
          /\ \E n \in 1..Len(sequences) :
                /\ sequences[n].i = scans[s].i
                /\ sequences[n].lastAssistantIndex = Len(rawEntries)

\* C10: every emitted Turn's activityCount is the number of assistant events
\* of its burst, from the first to the last inclusive, hence at least 1.
C10_ActivityCountIsAssistantEvents ==
    Done =>
      \A n \in 1..Len(sequences) :
         LET t == sequences[n] IN
         /\ t.messageCount
              = Cardinality({ k \in t.firstAssistantIndex..t.lastAssistantIndex :
                                IsAssistant(rawEntries[k]) })
         /\ t.messageCount >= 1

-----------------------------------------------------------------------------
(* C11: events without a usable timestamp                                  *)

HasTimestamp(e) == e.timestamp # NaN

\* C11: A user or assistant event whose timestamp is missing or unparsable
\* is skipped: it is never the trigger, the first response or the last
\* response of an emitted Turn.
C11_InvalidTimestampSkipped ==
    Done => \A n \in 1..Len(sequences) :
               /\ HasTimestamp(rawEntries[sequences[n].i])
               /\ HasTimestamp(rawEntries[sequences[n].firstAssistantIndex])
               /\ HasTimestamp(rawEntries[sequences[n].lastAssistantIndex])

-----------------------------------------------------------------------------
(* The parser: parseTranscriptLine and parseTranscriptFile, and the line   *)
(* loop of analyzeAssistantSequences                                       *)

\* Longest file explored.
MaxLines == 3

\* const validTypes = ['user', 'assistant', 'system', 'tool_result']
validTypes == {"user", "assistant", "system", "tool_result"}

\* One line of a file.  text is "blank" (empty or white space), "malformed"
\* (JSON.parse throws) or "json"; value is the kind of JSON value it holds;
\* type, timestamp, usage and message are the fields of a JSON object, each
\* "absent" when the object does not carry it.
Line(text, value, ty, ts, usage, msg) ==
    [text |-> text, value |-> value, type |-> ty, timestamp |-> ts,
     usage |-> usage, message |-> msg]

BlankLine     == Line("blank", "none", "absent", "absent", "absent", "absent")
MalformedLine == Line("malformed", "none", "absent", "absent", "absent", "absent")
NullLine      == Line("json", "null", "absent", "absent", "absent", "absent")
NumberLine    == Line("json", "number", "absent", "absent", "absent", "absent")
ObjectLine(ty, ts, usage, msg) == Line("json", "object", ty, ts, usage, msg)

Lines ==
    { BlankLine, MalformedLine, NullLine, NumberLine,
      ObjectLine("absent", "10:00", "absent", "test"),
      ObjectLine("user", "absent", "absent", "absent"),
      ObjectLine("summary", "10:00", "absent", "absent"),
      ObjectLine("user", "10:00", "absent", "hello"),
      ObjectLine("user", "10:05", "absent", "hello"),
      ObjectLine("assistant", "10:01", "object", "hi"),
      ObjectLine("system", "10:00", "absent", "absent"),
      ObjectLine("tool_result", "10:02", "absent", "absent"),
      ObjectLine("user", "10:03", "null", "hello") }

\* The TranscriptEntry built from a parsed object.
TranscriptEntry(parsed) ==
    [type |-> parsed.type, timestamp |-> parsed.timestamp,
     message |-> parsed.message, usage |-> parsed.usage]

\* How a call ends: it returns an entry, returns null, or throws.
ReturnEntry(e) == [kind |-> "entry", entry |-> <<e>>]
ReturnNull     == [kind |-> "null", entry |-> <<>>]
Throw          == [kind |-> "throw", entry |-> <<>>]

\* The body of the try block.  JSON.parse throws on a malformed line;
\* parsed.type throws on null and is undefined on any other value that is
\* not an object; parsed.usage.input_tokens throws when usage is null.
ParseBody(line) ==
    IF line.text = "malformed" THEN Throw
    ELSE IF line.value = "null" THEN Throw
    ELSE IF line.type = "absent" \/ line.timestamp = "absent" THEN ReturnNull
    ELSE IF line.type \notin validTypes THEN ReturnNull
    ELSE IF line.usage = "null" THEN Throw
    ELSE ReturnEntry(TranscriptEntry(line))

\* if (!line.trim()) return null; try { ... } catch { return null }
parseTranscriptLine(line) ==
    IF line.text = "blank" THEN ReturnNull
    ELSE IF ParseBody(line).kind = "throw" THEN ReturnNull
    ELSE ParseBody(line)

\* for (const line of lines) { const entry = parseTranscriptLine(line);
\* if (entry) entries.push(entry) }.  An exception raised inside the loop
\* leaves it and is rethrown by the catch block of parseTranscriptFile.
RECURSIVE ParseLines(_, _, _)
ParseLines(lines, k, acc) ==
    IF k > Len(lines) THEN [acc EXCEPT !.file = "returned"]
    ELSE LET r == parseTranscriptLine(lines[k])
         IN  IF r.kind = "throw" THEN [acc EXCEPT !.file = "threw"]
             ELSE ParseLines(lines, k + 1,
                             [acc EXCEPT !.entries = @ \o r.entry,
                                         !.results = Append(@, r.kind)])

\* The analyzer's own loop over lines.filter(line => line.trim()):
\* try { rawEntries.push(JSON.parse(line)) } catch { }.
RECURSIVE AnalyzerReadLines(_, _, _)
AnalyzerReadLines(lines, k, acc) ==
    IF k > Len(lines) THEN acc
    ELSE IF lines[k].text # "json" THEN AnalyzerReadLines(lines, k + 1, acc)
    ELSE AnalyzerReadLines(lines, k + 1, Append(acc, lines[k]))

\* The scan reads entry.type of every raw entry it visits, and it visits
\* them all; the property access throws a TypeError on null.
ScanThrows(raw) == \E k \in 1..Len(raw) : raw[k].value = "null"

\* fileContent.split('\n'), one line at a time.
WriteLine(l) ==
    /\ parser.file = "idle" /\ parser.analyzer = "idle"
    /\ Len(fileLines) < MaxLines
    /\ fileLines' = Append(fileLines, l)
    /\ UNCHANGED <<parser, segVars, aggVars, streakVars, cacheVars, watchVars>>

ParseTranscriptFile ==
    /\ parser.file = "idle" /\ parser.analyzer = "idle"
    /\ parser' = ParseLines(fileLines, 1,
                            [file |-> "idle", analyzer |-> "idle",
                             entries |-> <<>>, results |-> <<>>])
    /\ UNCHANGED <<fileLines, segVars, aggVars, streakVars, cacheVars, watchVars>>

AnalyzeFile ==
    /\ parser.file = "idle" /\ parser.analyzer = "idle"
    /\ LET raw == AnalyzerReadLines(fileLines, 1, <<>>)
       IN  parser' = [file |-> "idle",
                      analyzer |-> IF ScanThrows(raw) THEN "threw" ELSE "scanned",
                      rawValues |-> raw]
    /\ UNCHANGED <<fileLines, segVars, aggVars, streakVars, cacheVars, watchVars>>

NextParse ==
    \/ \E l \in Lines : WriteLine(l)
    \/ ParseTranscriptFile
    \/ AnalyzeFile

SpecParse == Init /\ [][NextParse]_vars

-----------------------------------------------------------------------------
(* C12, C13: rejected lines                                                *)

\* The entry a line decodes to, for the lines the parser accepts.
AcceptedLine(l) == parseTranscriptLine(l).kind = "entry"

RECURSIVE EntriesOf(_)
EntriesOf(lines) ==
    IF lines = <<>> THEN <<>>
    ELSE (IF AcceptedLine(Head(lines)) THEN <<TranscriptEntry(Head(lines))>> ELSE <<>>)
         \o EntriesOf(Tail(lines))

\* C12: One rejected line never aborts the processing of a log:
\* parseTranscriptFile returns exactly the entries of the accepted lines in
\* file order, and analyzeAssistantSequences gets through the file without
\* raising.
C12_RejectedLineNeverAborts ==
    /\ parser.file # "idle" =>
          parser.file = "returned" /\ parser.entries = EntriesOf(fileLines)
    /\ parser.analyzer # "idle" => parser.analyzer = "scanned"

\* The conditions under which the line is said to yield an entry.
WellFormedLine(l) ==
    /\ l.text # "blank"
    /\ l.text # "malformed"
    /\ l.type # "absent" /\ l.timestamp # "absent"
    /\ l.type \in {"user", "assistant", "system", "tool_result"}

\* C13: parseTranscriptLine returns an entry if and only if the line is not
\* blank, parses as JSON, carries a type and a timestamp, and its type is
\* one of user, assistant, system, tool_result; otherwise it returns null;
\* it never throws.
C13_EntryIffWellFormed ==
    parser.file # "idle" =>
       /\ parser.file = "returned"
       /\ \A k \in 1..Len(fileLines) :
             /\ parser.results[k] \in {"entry", "null"}
             /\ parser.results[k] = "entry" <=> WellFormedLine(fileLines[k])

-----------------------------------------------------------------------------
(* The scan of analyzeAssistantSequences, one iteration of the outer loop  *)
(* at a time                                                               *)

ScanEntries == { UserText(0), Assistant(0), Assistant(1200000), ToolResult(0),
                 Synthetic(0) }

\* let i = 0
StartScan ==
    /\ pc = "reading"
    /\ pc' = "scanning"
    /\ cursor' = 1
    /\ UNCHANGED <<rawEntries, sequences, scans>>
    /\ UNCHANGED <<parseVars, aggVars, streakVars, cacheVars, watchVars>>

\* One evaluation of while (i < rawEntries.length) and, when it holds, one
\* pass through the body of the loop.
ScanStep ==
    /\ pc = "scanning"
    /\ IF cursor > Len(rawEntries)
       THEN pc' = "done" /\ UNCHANGED <<cursor, sequences, scans>>
       ELSE IF ~Qualifies(rawEntries[cursor])
       THEN cursor' = cursor + 1 /\ UNCHANGED <<pc, sequences, scans>>
       ELSE LET b == ScanBurst(rawEntries, cursor + 1, NewBurst(cursor))
            IN  /\ cursor' = NextCursor(b)
                /\ sequences' = IF ShouldEmit(b)
                                THEN Append(sequences, MakeSequence(rawEntries, b))
                                ELSE sequences
                /\ scans' = Append(scans, b)
                /\ UNCHANGED pc
    /\ UNCHANGED rawEntries
    /\ UNCHANGED <<parseVars, aggVars, streakVars, cacheVars, watchVars>>

NextScan ==
    \/ \E e \in ScanEntries : ReadLine(e)
    \/ StartScan
    \/ ScanStep

SpecScan == Init /\ [][NextScan]_vars

\* The program runs to completion: it reads the lines it has, then scans.
SpecScanFair == SpecScan /\ WF_vars(NextScan)

-----------------------------------------------------------------------------
(* C14: termination of the scan                                            *)

\* A pass through the body of the outer loop.
ScanIteration == pc = "scanning" /\ cursor <= Len(rawEntries) /\ ScanStep

\* C14: The segmentation scan terminates on every finite event sequence: the
\* outer cursor strictly increases on every iteration, every inner burst
\* scan stops at the end of the input at the latest, and a scan that has
\* started ends.
C14_ScanTerminates ==
    /\ [][ScanIteration => cursor' > cursor]_vars
    /\ [](\A n \in 1..Len(scans) :
             scans[n].i < scans[n].endIndex /\ scans[n].endIndex <= Len(rawEntries) + 1)
    /\ (pc = "scanning") ~> (pc = "done" /\ cursor = Len(rawEntries) + 1)

\* A scan of at least three entries that ran two bursts and came to its end.
C14_Witness ==
    /\ pc = "done" /\ cursor = Len(rawEntries) + 1
    /\ Len(rawEntries) >= 3 /\ Len(scans) >= 2

-----------------------------------------------------------------------------
(* The aggregator (aggregateResponseTimes) and the calculator's            *)
(* calculateMetrics                                                        *)
(*                                                                         *)
(* A ResponseTime keeps the fields the reducers compute with: the trigger  *)
(* timestamp (ms since the epoch), the latency and the sessionId.  A JS    *)
(* Map is a function from its keys; a quotient total / count is the pair   *)
(* of its operands (count 0 is JavaScript's 0 / 0, that is NaN).           *)

\* Longest list of turns reduced.
MaxTurns == 3

\* Longest list of latencies a percentile is taken of.
MaxValues == 10

MS_PER_DAY == 1000 * 60 * 60 * 24

ResponseTime(ts, ms, sid) ==
    [userMessageTimestamp |-> ts, responseTimeMs |-> ms, sessionId |-> sid]

\* 10:00 and 23:00 of one UTC day, 01:00 of the next.
TurnTimes == {36000000, 82800000, 90000000}
Latencies == {1200, 1500}
SessionIds == {"s1", "s2"}
ResponseTimes ==
    { ResponseTime(ts, ms, sid) : ts \in TurnTimes, ms \in Latencies, sid \in SessionIds }

\* total / count
Ratio(total, count) == [num |-> total, den |-> count]

\* A date or instant string, or the empty string.
DateString(v) == [empty |-> FALSE, value |-> v]
EmptyString   == [empty |-> TRUE, value |-> 0]

\* new Date(dateString).toISOString().split('T')[0]: the UTC day.
formatDateToDay(ts) == ts \div MS_PER_DAY

\* Math.ceil(num / den) for num >= 0, den > 0
Ceil(num, den) == (num + den - 1) \div den

Max(a, b) == IF a >= b THEN a ELSE b

\* A percentile without the test for the empty list: sortedValues[0] of an
\* empty array is undefined, here NaN.
calculatePercentileUnguarded(sortedValues, percentile) ==
    IF Len(sortedValues) = 0 THEN NaN
    ELSE sortedValues[Max(0, Ceil(percentile * Len(sortedValues), 100) - 1) + 1]

\* The aggregator's calculatePercentile; k-th element of a JS array is
\* element k + 1 of the sequence.
calculatePercentile(sortedValues, percentile) ==
    IF Len(sortedValues) = 0 THEN 0
    ELSE sortedValues[Max(0, Ceil(percentile * Len(sortedValues), 100) - 1) + 1]

RECURSIVE InsertSorted(_, _)
InsertSorted(sorted, v) ==
    IF sorted = <<>> THEN <<v>>
    ELSE IF v < Head(sorted) THEN <<v>> \o sorted
    ELSE <<Head(sorted)>> \o InsertSorted(Tail(sorted), v)

\* [...values].sort((a, b) => a - b)
RECURSIVE SortAscending(_)
SortAscending(values) ==
    IF values = <<>> THEN <<>>
    ELSE InsertSorted(SortAscending(Tail(values)), Head(values))

\* The calculator's calculatePercentile, which sorts a copy first.
calculatorPercentile(values, percentile) ==
    IF Len(values) = 0 THEN 0
    ELSE LET sorted == SortAscending(values)
         IN  sorted[Max(0, Ceil(percentile * Len(sorted), 100) - 1) + 1]

\* responseTimes.map(rt => rt.responseTimeMs)
TimesOf(rts) == [k \in 1..Len(rts) |-> rts[k].responseTimeMs]

\* values.reduce((sum, t) => sum + t, 0)
RECURSIVE SumOf(_)
SumOf(values) == IF values = <<>> THEN 0 ELSE Head(values) + SumOf(Tail(values))

\* A group that holds only the element added last.
AddToGroupReplacing(groups, key, rt) ==
    IF key \in DOMAIN groups THEN [groups EXCEPT ![key] = <<rt>>]
    ELSE groups @@ (key :> <<rt>>)

\* if (!groups.has(key)) groups.set(key, []); groups.get(key).push(rt)
AddToGroup(groups, key, rt) ==
    IF key \in DOMAIN groups THEN [groups EXCEPT ![key] = Append(@, rt)]
    ELSE groups @@ (key :> <<rt>>)

RECURSIVE GroupByDayFrom(_, _)
GroupByDayFrom(rts, groups) ==
    IF rts = <<>> THEN groups
    ELSE GroupByDayFrom(Tail(rts),
             AddToGroup(groups, formatDateToDay(Head(rts).userMessageTimestamp),
                        Head(rts)))

groupByDay(rts) == GroupByDayFrom(rts, <<>>)

RECURSIVE GroupBySessionFrom(_, _)
GroupBySessionFrom(rts, groups) ==
    IF rts = <<>> THEN groups
    ELSE GroupBySessionFrom(Tail(rts), AddToGroup(groups, Head(rts).sessionId, Head(rts)))

calculateDailyStats(date, rts) ==
    LET responseTimesMs == TimesOf(rts)
        sortedResponseTimes == SortAscending(responseTimesMs)
        totalResponseTimeMs == SumOf(responseTimesMs)
    IN  [date |-> date,
         totalResponseTimeMs |-> totalResponseTimeMs,
         averageResponseTimeMs |-> Ratio(totalResponseTimeMs, Len(rts)),
         responseCount |-> Len(rts),
         sessions |-> { rts[k].sessionId : k \in 1..Len(rts) },
         percentiles |-> [p50 |-> calculatePercentile(sortedResponseTimes, 50),
                          p90 |-> calculatePercentile(sortedResponseTimes, 90),
                          p99 |-> calculatePercentile(sortedResponseTimes, 99)]]

\* Math.min(...timestamps) of a non-empty list
MinOf(values) == CHOOSE v \in { values[k] : k \in 1..Len(values) } :
                    \A k \in 1..Len(values) : v <= values[k]

MaxOf(values) == CHOOSE v \in { values[k] : k \in 1..Len(values) } :
                    \A k \in 1..Len(values) : v >= values[k]

TimestampsOf(rts) == [k \in 1..Len(rts) |-> rts[k].userMessageTimestamp]

createSessionMetrics(rts) ==
    LET sessionMap == GroupBySessionFrom(rts, <<>>)
    IN  [sessionId \in DOMAIN sessionMap |->
           LET sessionResponses == sessionMap[sessionId]
               totalResponseTimeMs == SumOf(TimesOf(sessionResponses))
           IN  [sessionId |-> sessionId,
                totalResponses |-> Len(sessionResponses),
                totalResponseTimeMs |-> totalResponseTimeMs,
                averageResponseTimeMs |->
                    Ratio(totalResponseTimeMs, Len(sessionResponses)),
                firstMessage |-> MinOf(TimestampsOf(sessionResponses))]]

\* A summary that counts the sessions where it should count the turns.
generateSummaryStatisticsCountingSessions(rts, sessionMetrics) ==
    IF Len(rts) = 0
    THEN [totalResponseTimeMs |-> 0, totalResponses |-> 0,
          averageResponseTimeMs |-> Ratio(0, 1), uniqueSessions |-> 0,
          dateRange |-> [from |-> EmptyString, to |-> EmptyString]]
    ELSE [totalResponseTimeMs |-> SumOf(TimesOf(rts)),
          totalResponses |-> Cardinality(DOMAIN sessionMetrics),
          averageResponseTimeMs |-> Ratio(SumOf(TimesOf(rts)), Len(rts)),
          uniqueSessions |-> Cardinality(DOMAIN sessionMetrics),
          dateRange |-> [from |-> DateString(MinOf(TimestampsOf(rts))),
                         to |-> DateString(MaxOf(TimestampsOf(rts)))]]

\* A summary without the test for the empty list: the average is 0 / 0 and
\* the date range is taken of Math.min() and Math.max() of nothing.
generateSummaryStatisticsUnguarded(rts, sessionMetrics) ==
    [totalResponseTimeMs |-> SumOf(TimesOf(rts)),
     totalResponses |-> Len(rts),
     averageResponseTimeMs |-> Ratio(SumOf(TimesOf(rts)), Len(rts)),
     uniqueSessions |-> Cardinality(DOMAIN sessionMetrics),
     dateRange |-> IF Len(rts) = 0
                   THEN [from |-> DateString(NaN), to |-> DateString(NaN)]
                   ELSE [from |-> DateString(MinOf(TimestampsOf(rts))),
                         to |-> DateString(MaxOf(TimestampsOf(rts)))]]

generateSummaryStatistics(rts, sessionMetrics) ==
    IF Len(rts) = 0
    THEN [totalResponseTimeMs |-> 0, totalResponses |-> 0,
          averageResponseTimeMs |-> Ratio(0, 1), uniqueSessions |-> 0,
          dateRange |-> [from |-> EmptyString, to |-> EmptyString]]
    ELSE [totalResponseTimeMs |-> SumOf(TimesOf(rts)),
          totalResponses |-> Len(rts),
          averageResponseTimeMs |-> Ratio(SumOf(TimesOf(rts)), Len(rts)),
          uniqueSessions |-> Cardinality(DOMAIN sessionMetrics),
          dateRange |-> [from |-> DateString(MinOf(TimestampsOf(rts))),
                         to |-> DateString(MaxOf(TimestampsOf(rts)))]]

aggregateResponseTimes(rts) ==
    LET groupedByDay == groupByDay(rts)
        sessionMetrics == createSessionMetrics(rts)
    IN  [daily |-> [date \in DOMAIN groupedByDay |->
                       calculateDailyStats(date, groupedByDay[date])],
         sessions |-> sessionMetrics,
         summary |-> generateSummaryStatistics(rts, sessionMetrics)]

\* The calculator's grouping: existing = grouped.get(date) || [];
\* existing.push(rt); grouped.set(date, existing)
groupByDate(rts) == GroupByDayFrom(rts, <<>>)

calculateMetrics(rts) ==
    LET dateGroups == groupByDate(rts)
        sessionGroups == GroupBySessionFrom(rts, <<>>)
        daily == [date \in DOMAIN dateGroups |->
                    LET times == TimesOf(dateGroups[date])
                    IN  [date |-> date,
                         totalResponseTimeMs |-> SumOf(times),
                         averageResponseTimeMs |-> Ratio(SumOf(times), Len(times)),
                         responseCount |-> Len(dateGroups[date]),
                         sessions |-> { dateGroups[date][k].sessionId :
                                           k \in 1..Len(dateGroups[date]) },
                         percentiles |-> [p50 |-> calculatorPercentile(times, 50),
                                          p90 |-> calculatorPercentile(times, 90),
                                          p99 |-> calculatorPercentile(times, 99)]]]
        sessionMetrics ==
                 [sessionId \in DOMAIN sessionGroups |->
                    LET times == TimesOf(sessionGroups[sessionId])
                    IN  [sessionId |-> sessionId,
                         totalResponses |-> Len(sessionGroups[sessionId]),
                         totalResponseTimeMs |-> SumOf(times),
                         averageResponseTimeMs |-> Ratio(SumOf(times), Len(times)),
                         firstMessage |->
                             MinOf(TimestampsOf(sessionGroups[sessionId]))]]
        allTimes == TimesOf(rts)
    IN  [daily |-> daily,
         sessions |-> sessionMetrics,
         summary |->
            [totalResponseTimeMs |-> SumOf(allTimes),
             totalResponses |-> Len(rts),
             averageResponseTimeMs |-> IF Len(rts) > 0
                                       THEN Ratio(SumOf(allTimes), Len(rts))
                                       ELSE Ratio(0, 1),
             uniqueSessions |-> Cardinality(DOMAIN sessionMetrics),
             dateRange |-> IF DOMAIN daily = {}
                           THEN [from |-> EmptyString, to |-> EmptyString]
                           ELSE [from |-> DateString(SetMin(DOMAIN daily)),
                                 to |-> DateString(SetMax(DOMAIN daily))]]]

\* The caller collects the turns of the sessions it analysed.
AddResponseTime(rt) ==
    /\ aggregated.pc = "idle"
    /\ Len(responseTimes) < MaxTurns
    /\ responseTimes' = Append(responseTimes, rt)
    /\ UNCHANGED <<aggregated, segVars, parseVars, streakVars, cacheVars, watchVars>>

AggregateResponseTimes ==
    /\ aggregated.pc = "idle"
    /\ aggregated' = [pc |-> "aggregated", data |-> aggregateResponseTimes(responseTimes)]
    /\ UNCHANGED <<responseTimes, segVars, parseVars, streakVars, cacheVars, watchVars>>

CalculateMetrics ==
    /\ aggregated.pc = "idle"
    /\ aggregated' = [pc |-> "calculated", data |-> calculateMetrics(responseTimes)]
    /\ UNCHANGED <<responseTimes, segVars, parseVars, streakVars, cacheVars, watchVars>>

NextAgg ==
    \/ \E rt \in ResponseTimes : AddResponseTime(rt)
    \/ AggregateResponseTimes
    \/ CalculateMetrics

SpecAgg == Init /\ [][NextAgg]_vars

\* The latencies of one day, in ascending order: 1, then each value equal to
\* the one before it or larger by one.
AddLatency(v) ==
    /\ aggregated.pc = "idle"
    /\ Len(responseTimes) < MaxValues
    /\ IF responseTimes = <<>> THEN v = 1
       ELSE v - responseTimes[Len(responseTimes)].responseTimeMs \in {0, 1}
    /\ responseTimes' = Append(responseTimes, ResponseTime(36000000, v, "s1"))
    /\ UNCHANGED <<aggregated, segVars, parseVars, streakVars, cacheVars, watchVars>>

Reverse(values) == [k \in 1..Len(values) |-> values[Len(values) + 1 - k]]

\* One call of each calculatePercentile: the aggregator's on the sorted
\* list, the calculator's on the same values in descending order.
TakePercentile(percentile) ==
    /\ aggregated.pc = "idle"
    /\ aggregated' = [pc |-> "percentile",
                      percentile |-> percentile,
                      sortedValues |-> TimesOf(responseTimes),
                      fromAggregator |->
                          calculatePercentile(TimesOf(responseTimes), percentile),
                      fromCalculator |->
                          calculatorPercentile(Reverse(TimesOf(responseTimes)),
                                               percentile)]
    /\ UNCHANGED <<responseTimes, segVars, parseVars, streakVars, cacheVars, watchVars>>

NextPercentile ==
    \/ \E v \in 1..MaxValues : AddLatency(v)
    \/ \E percentile \in 0..100 : TakePercentile(percentile)

SpecPercentile == Init /\ [][NextPercentile]_vars

-----------------------------------------------------------------------------
(* C15: nearest-rank percentile                                            *)

\* The least m with m / n >= P / 100, that is ceil(P / 100 * n).
RankOf(P, n) == CHOOSE m \in 0..n :
                   /\ 100 * m >= P * n
                   /\ \A m2 \in 0..n : 100 * m2 >= P * n => m <= m2

\* The rank as a zero-based index, clamped to [0, n - 1].
NearestRankIndex(P, n) ==
    LET k == RankOf(P, n) - 1
    IN  IF k < 0 THEN 0 ELSE IF k > n - 1 THEN n - 1 ELSE k

-----------------------------------------------------------------------------
(* C16, C17, C18: the reducers                                             *)

\* The calendar (UTC) date of an instant, as a day number.
DateOf(ts) == CHOOSE d \in 0..3 : d * MS_PER_DAY <= ts /\ ts < (d + 1) * MS_PER_DAY

TurnsOn(day) ==
    { k \in 1..Len(responseTimes) : DateOf(responseTimes[k].userMessageTimestamp) = day }

TurnsOfSession(sid) ==
    { k \in 1..Len(responseTimes) : responseTimes[k].sessionId = sid }

\* The sum of the latencies of the input turns at the positions in S.
RECURSIVE LatencyOver(_)
LatencyOver(S) ==
    IF S = {} THEN 0
    ELSE LET k == CHOOSE k \in S : TRUE
         IN  responseTimes[k].responseTimeMs + LatencyOver(S \ {k})

\* avg is the number total / count.
IsQuotient(avg, total, count) == avg.den # 0 /\ avg.num * count = total * avg.den

ExampleTurns == << ResponseTime(36000000, 1500, "s1"), ResponseTime(82800000, 1200, "s1") >>

\* C16: aggregateResponseTimes produces one bucket per calendar date of a
\* trigger timestamp, with the count, the latency total, the average and the
\* session set of the turns of that date, and one summary per sessionId with
\* the analogous count, total and average; no other date or session has an
\* entry.  Two turns of 1500 ms and 1200 ms on one day in one session give
\* count 2, total 2700, average 1350 and one session with 2 turns.
C16_BucketsAndSessions ==
    aggregated.pc = "aggregated" =>
       LET daily == aggregated.data.daily
           perSession == aggregated.data.sessions
       IN  /\ DOMAIN daily = { DateOf(responseTimes[k].userMessageTimestamp) :
                                  k \in 1..Len(responseTimes) }
           /\ \A day \in DOMAIN daily :
                 /\ daily[day].date = day
                 /\ daily[day].responseCount = Cardinality(TurnsOn(day))
                 /\ daily[day].totalResponseTimeMs = LatencyOver(TurnsOn(day))
                 /\ IsQuotient(daily[day].averageResponseTimeMs,
                               LatencyOver(TurnsOn(day)), Cardinality(TurnsOn(day)))
                 /\ daily[day].sessions =
                       { responseTimes[k].sessionId : k \in TurnsOn(day) }
           /\ DOMAIN perSession =
                 { responseTimes[k].sessionId : k \in 1..Len(responseTimes) }
           /\ \A sid \in DOMAIN perSession :
                 /\ perSession[sid].totalResponses = Cardinality(TurnsOfSession(sid))
                 /\ perSession[sid].totalResponseTimeMs = LatencyOver(TurnsOfSession(sid))
                 /\ IsQuotient(perSession[sid].averageResponseTimeMs,
                               LatencyOver(TurnsOfSession(sid)),
                               Cardinality(TurnsOfSession(sid)))
           /\ responseTimes = ExampleTurns =>
                 /\ DOMAIN daily = {0}
                 /\ daily[0].responseCount = 2
                 /\ daily[0].totalResponseTimeMs = 2700
                 /\ IsQuotient(daily[0].averageResponseTimeMs, 1350, 1)
                 /\ DOMAIN perSession = {"s1"}
                 /\ perSession["s1"].totalResponses = 2

\* The two turns of the example were aggregated.
C16_Witness == aggregated.pc = "aggregated" /\ responseTimes = ExampleTurns

\* The sum of one numeric field over the values of a map.
RECURSIVE SumField(_, _, _)
SumField(map, keys, field) ==
    IF keys = {} THEN 0
    ELSE LET k == CHOOSE k \in keys : TRUE
         IN  map[k][field] + SumField(map, keys \ {k}, field)

\* C17: The reducer drops and duplicates nothing: the daily counts, the
\* per-session counts and the summary's totalResponses all add up to the
\* input length, the three latency totals are equal, and uniqueSessions is
\* the number of distinct sessionIds of the input.
C17_NothingDroppedOrDuplicated ==
    aggregated.pc \in {"aggregated", "calculated"} =>
       LET daily == aggregated.data.daily
           perSession == aggregated.data.sessions
           summary == aggregated.data.summary
       IN  /\ SumField(daily, DOMAIN daily, "responseCount") = Len(responseTimes)
           /\ SumField(perSession, DOMAIN perSession, "totalResponses")
                 = Len(responseTimes)
           /\ summary.totalResponses = Len(responseTimes)
           /\ SumField(daily, DOMAIN daily, "totalResponseTimeMs")
                 = LatencyOver(1..Len(responseTimes))
           /\ SumField(perSession, DOMAIN perSession, "totalResponseTimeMs")
                 = LatencyOver(1..Len(responseTimes))
           /\ summary.totalResponseTimeMs = LatencyOver(1..Len(responseTimes))
           /\ summary.uniqueSessions =
                 Cardinality({ responseTimes[k].sessionId : k \in 1..Len(responseTimes) })

\* Three turns over two days and two sessions were reduced.
C17_Witness ==
    /\ aggregated.pc = "aggregated"
    /\ Len(responseTimes) = 3
    /\ Cardinality(DOMAIN aggregated.data.daily) = 2
    /\ Cardinality(DOMAIN aggregated.data.sessions) = 2

\* C18: Reducing an empty list of turns returns empty daily and session maps
\* and a summary whose counters are 0, whose average is 0 and not NaN, and
\* whose date range is a pair of empty strings.
C18_EmptyInput ==
    (aggregated.pc \in {"aggregated", "calculated"} /\ responseTimes = <<>>) =>
       LET summary == aggregated.data.summary
       IN  /\ DOMAIN aggregated.data.daily = {}
           /\ DOMAIN aggregated.data.sessions = {}
           /\ summary.totalResponseTimeMs = 0
           /\ summary.totalResponses = 0
           /\ summary.uniqueSessions = 0
           /\ IsQuotient(summary.averageResponseTimeMs, 0, 1)
           /\ summary.dateRange.from.empty /\ summary.dateRange.to.empty

\* The empty list was aggregated.
C18_Witness == aggregated.pc = "aggregated" /\ responseTimes = <<>>

-----------------------------------------------------------------------------
(* Streaks: calculateStreaks                                               *)
(*                                                                         *)
(* An instant is a number of milliseconds since the epoch; a Date that is  *)
(* undefined is 0 (no instant of the model is).  Local time is UTC plus    *)
(* the offset tz of the time zone the program runs in.                     *)

\* Most session files handed to calculateStreaks.
MaxSessions == 4

\* Days 1..MaxDay after the epoch are the days of the sessions and of the
\* clock.
MaxDay == 5

NoonOf(day) == day * MS_PER_DAY + 12 * 60 * 60 * 1000

\* lastModified of a session file: noon (UTC) of any day, or 23:30 of day 2.
SessionInstants == { NoonOf(d) : d \in 1..MaxDay } \cup { 2 * MS_PER_DAY + 84600000 }

\* new Date(): noon (UTC) of any day.
Nows == { NoonOf(d) : d \in 1..MaxDay }

\* Offsets of the local time zone: UTC-1, UTC, UTC+1.
TimeZones == { -3600000, 0, 3600000 }

\* date.toISOString().split('T')[0]: the UTC day of an instant.
DateKey(t) == t \div MS_PER_DAY

\* new Date('YYYY-MM-DD'): midnight UTC of the day.
DateOfKey(day) == day * MS_PER_DAY

\* date.setHours(0, 0, 0, 0): midnight, local time, of the local day.
LocalMidnight(t, tz) == ((t + tz) \div MS_PER_DAY) * MS_PER_DAY - tz

\* Array.from(daysUsed).sort()
RECURSIVE SortedDays(_)
SortedDays(daysUsed) ==
    IF daysUsed = {} THEN <<>>
    ELSE <<SetMin(daysUsed)>> \o SortedDays(daysUsed \ {SetMin(daysUsed)})

isYesterday(date, now, tz) ==
    LocalMidnight(date, tz) = LocalMidnight(now - MS_PER_DAY, tz)

\* Math.floor((a.getTime() - b.getTime()) / (1000 * 60 * 60 * 24))
DaysDiff(a, b) == (a - b) \div MS_PER_DAY

\* Recording every run that ends as the longest one.
CloseRunAlways(acc, endDate) ==
    [acc EXCEPT !.longestStreak = acc.tempStreak,
                !.longestStreakStart = acc.tempStreakStart,
                !.longestStreakEnd = endDate]

\* if (tempStreak > longestStreak) { longestStreak = tempStreak; ... }
CloseRun(acc, endDate) ==
    IF acc.tempStreak > acc.longestStreak
    THEN [acc EXCEPT !.longestStreak = acc.tempStreak,
                     !.longestStreakStart = acc.tempStreakStart,
                     !.longestStreakEnd = endDate]
    ELSE acc

\* for (let i = 0; i < sortedDates.length; i++) { ... }
RECURSIVE StreakLoop(_, _, _)
StreakLoop(sortedDates, i, acc) ==
    IF i > Len(sortedDates) THEN acc
    ELSE IF i = 1
    THEN StreakLoop(sortedDates, i + 1,
                    [acc EXCEPT !.tempStreak = 1, !.tempStreakStart = sortedDates[i]])
    ELSE IF DaysDiff(sortedDates[i], sortedDates[i - 1]) = 1
    THEN StreakLoop(sortedDates, i + 1, [acc EXCEPT !.tempStreak = @ + 1])
    ELSE StreakLoop(sortedDates, i + 1,
                    [CloseRun(acc, sortedDates[i - 1])
                        EXCEPT !.tempStreak = 1, !.tempStreakStart = sortedDates[i]])

\* for (let i = sortedDates.length - 2; i >= 0; i--) { ... }
RECURSIVE CountBack(_, _, _, _)
CountBack(sortedDates, i, checkDate, currentStreak) ==
    IF i < 1 THEN currentStreak
    ELSE IF DaysDiff(checkDate, sortedDates[i]) = 1
    THEN CountBack(sortedDates, i - 1, sortedDates[i], currentStreak + 1)
    ELSE currentStreak

calculateStreaks(files, now, tz) ==
    IF Len(files) = 0
    THEN [currentStreak |-> 0, longestStreak |-> 0,
          longestStreakStart |-> 0, longestStreakEnd |-> 0, totalDaysUsed |-> 0]
    ELSE LET daysUsed == { DateKey(files[k]) : k \in 1..Len(files) }
             sortedDays == SortedDays(daysUsed)
             sortedDates == [k \in 1..Len(sortedDays) |-> DateOfKey(sortedDays[k])]
             todayKey == DateKey(LocalMidnight(now, tz))
             hasToday == todayKey \in daysUsed
             looped == StreakLoop(sortedDates, 1,
                          [tempStreak |-> 0, tempStreakStart |-> 0, longestStreak |-> 0,
                           longestStreakStart |-> 0, longestStreakEnd |-> 0])
             final == CloseRun(looped, sortedDates[Len(sortedDates)])
         IN  [currentStreak |->
                 IF hasToday \/ isYesterday(sortedDates[Len(sortedDates)], now, tz)
                 THEN CountBack(sortedDates, Len(sortedDates) - 1,
                                sortedDates[Len(sortedDates)], 1)
                 ELSE 0,
              longestStreak |-> final.longestStreak,
              longestStreakStart |-> final.longestStreakStart,
              longestStreakEnd |-> final.longestStreakEnd,
              totalDaysUsed |-> Cardinality(daysUsed)]

\* The caller lists a session file.
AddSession(t) ==
    /\ streakInfo.pc = "idle"
    /\ Len(sessions) < MaxSessions
    /\ sessions' = Append(sessions, t)
    /\ UNCHANGED <<streakInfo, segVars, parseVars, aggVars, cacheVars, watchVars>>

\* One call of calculateStreaks; it reads the clock and the time zone of
\* the machine.
CalculateStreaks(now, tz) ==
    /\ streakInfo.pc = "idle"
    /\ streakInfo' = [pc |-> "done", now |-> now, tz |-> tz,
                      info |-> calculateStreaks(sessions, now, tz)]
    /\ UNCHANGED <<sessions, segVars, parseVars, aggVars, cacheVars, watchVars>>

NextStreak ==
    \/ \E t \in SessionInstants : AddSession(t)
    \/ \E now \in Nows, tz \in TimeZones : CalculateStreaks(now, tz)

SpecStreak == Init /\ [][NextStreak]_vars

-----------------------------------------------------------------------------
(* C19, C20: streaks                                                       *)

\* The calendar days of the modification dates.
DaysUsed == { DateKey(sessions[k]) : k \in 1..Len(sessions) }

\* Today's calendar day: the clock stands at noon UTC, so it is the same
\* day in UTC and in each time zone of the model.
Today == DateKey(streakInfo.now)

IsRun(a, b) == a <= b /\ \A d \in a..b : d \in DaysUsed

\* Length of the longest run of consecutive days that contains day d.
RunContaining(d) ==
    LET lens == { b - a + 1 : a \in { x \in 0..d : IsRun(x, d) },
                              b \in { y \in d..(MaxDay + 1) : IsRun(d, y) } }
    IN  SetMax(lens)

\* C19: currentStreak is the length of the run of consecutive days that
\* includes today or yesterday, and 0 when the set of modification dates
\* contains neither; {Jan1, Jan2, Jan3, Jan5} with today = Jan5 gives 1.
C19_CurrentStreak ==
    streakInfo.pc = "done" =>
       streakInfo.info.currentStreak =
          IF Today \in DaysUsed THEN RunContaining(Today)
          ELSE IF Today - 1 \in DaysUsed THEN RunContaining(Today - 1)
          ELSE 0

\* Length of the longest run of consecutive days (0 for no day).
LongestRun ==
    SetMax({0} \cup { q[2] - q[1] + 1 :
                         q \in { p \in DaysUsed \X DaysUsed : IsRun(p[1], p[2]) } })

\* C20: longestStreak is the maximum length of a run of consecutive calendar
\* days among the distinct modification dates, and longestStreakStart and
\* longestStreakEnd delimit a run of exactly that length; {Jan1, Jan2, Jan3,
\* Jan5} gives 3 from Jan1 to Jan3; an empty input gives all zeros.
C20_LongestStreak ==
    streakInfo.pc = "done" =>
       LET info == streakInfo.info IN
       /\ info.longestStreak = LongestRun
       /\ DaysUsed # {} =>
             \E a \in DaysUsed, b \in DaysUsed :
                /\ info.longestStreakStart = DateOfKey(a)
                /\ info.longestStreakEnd = DateOfKey(b)
                /\ IsRun(a, b) /\ b - a + 1 = info.longestStreak
       /\ DaysUsed = {1, 2, 3, 5} =>
             /\ info.longestStreak = 3
             /\ info.longestStreakStart = DateOfKey(1)
             /\ info.longestStreakEnd = DateOfKey(3)
       /\ sessions = <<>> =>
             /\ info.currentStreak = 0 /\ info.longestStreak = 0
             /\ info.totalDaysUsed = 0

\* The streaks of {Jan1, Jan2, Jan3, Jan5} were calculated.
C20_Witness ==
    /\ streakInfo.pc = "done"
    /\ DaysUsed = {1, 2, 3, 5}
    /\ streakInfo.info.longestStreak = 3

-----------------------------------------------------------------------------
(* mergeProcessedData                                                      *)

\* a - b < 0 for two quotients with positive denominators
RatioLess(a, b) == a.num * b.den < b.num * a.den

RECURSIVE InsertSortedRatio(_, _)
InsertSortedRatio(sorted, v) ==
    IF sorted = <<>> THEN <<v>>
    ELSE IF RatioLess(v, Head(sorted)) THEN <<v>> \o sorted
    ELSE <<Head(sorted)>> \o InsertSortedRatio(Tail(sorted), v)

\* [...].sort((a, b) => a - b) of a list of averages
RECURSIVE SortRatios(_)
SortRatios(values) ==
    IF values = <<>> THEN <<>>
    ELSE InsertSortedRatio(SortRatios(Tail(values)), Head(values))

\* Array(count).fill(value)
Filled(count, value) == [k \in 1..count |-> value]

\* The bucket set for a date that mergedDaily already has (lines 231-249).
MergeBuckets(existing, dailyData) ==
    LET synthetic == SortRatios(
               Filled(existing.responseCount, existing.averageResponseTimeMs)
            \o Filled(dailyData.responseCount, dailyData.averageResponseTimeMs))
    IN  [date |-> existing.date,
         totalResponseTimeMs |->
             existing.totalResponseTimeMs + dailyData.totalResponseTimeMs,
         averageResponseTimeMs |->
             Ratio(existing.totalResponseTimeMs + dailyData.totalResponseTimeMs,
                   existing.responseCount + dailyData.responseCount),
         responseCount |-> existing.responseCount + dailyData.responseCount,
         sessions |-> existing.sessions \cup dailyData.sessions,
         percentiles |-> [p50 |-> calculatePercentile(synthetic, 50),
                          p90 |-> calculatePercentile(synthetic, 90),
                          p99 |-> calculatePercentile(synthetic, 99)]]

\* for (const [date, dailyData] of data.daily) { ... }
MergeDaily(mergedDaily, daily) ==
    [date \in DOMAIN mergedDaily \cup DOMAIN daily |->
        IF date \in DOMAIN mergedDaily /\ date \in DOMAIN daily
        THEN MergeBuckets(mergedDaily[date], daily[date])
        ELSE IF date \in DOMAIN daily THEN daily[date]
        ELSE mergedDaily[date]]

\* for (const [sessionId, sessionData] of data.sessions)
\*   mergedSessions.set(sessionId, sessionData)
MergeSessions(mergedSessions, perSession) ==
    [sessionId \in DOMAIN mergedSessions \cup DOMAIN perSession |->
        IF sessionId \in DOMAIN perSession THEN perSession[sessionId]
        ELSE mergedSessions[sessionId]]

RECURSIVE MergeFrom(_, _, _)
MergeFrom(dataSets, mergedDaily, mergedSessions) ==
    IF dataSets = <<>> THEN [daily |-> mergedDaily, sessions |-> mergedSessions]
    ELSE MergeFrom(Tail(dataSets),
                   MergeDaily(mergedDaily, Head(dataSets).daily),
                   MergeSessions(mergedSessions, Head(dataSets).sessions))

RECURSIVE SumOverMap(_, _, _)
SumOverMap(map, keys, field) ==
    IF keys = {} THEN 0
    ELSE LET k == CHOOSE k \in keys : TRUE
         IN  map[k][field] + SumOverMap(map, keys \ {k}, field)

\* The summary recomputed from a map of daily buckets and a map of sessions
\* (lines 262-283, and lines 319-337 of filterByDateRange).
SummaryOfMaps(daily, perSession) ==
    LET totalResponseTimeMs == SumOverMap(daily, DOMAIN daily, "totalResponseTimeMs")
        totalResponses == SumOverMap(daily, DOMAIN daily, "responseCount")
    IN  [totalResponseTimeMs |-> totalResponseTimeMs,
         totalResponses |-> totalResponses,
         averageResponseTimeMs |-> IF totalResponses > 0
                                   THEN Ratio(totalResponseTimeMs, totalResponses)
                                   ELSE Ratio(0, 1),
         uniqueSessions |-> Cardinality(DOMAIN perSession),
         dateRange |-> IF DOMAIN daily = {}
                       THEN [from |-> EmptyString, to |-> EmptyString]
                       ELSE [from |-> DateString(SetMin(DOMAIN daily)),
                             to |-> DateString(SetMax(DOMAIN daily))]]

mergeProcessedData(dataSets) ==
    LET merged == MergeFrom(dataSets, <<>>, <<>>)
    IN  [daily |-> merged.daily,
         sessions |-> merged.sessions,
         summary |-> SummaryOfMaps(merged.daily, merged.sessions)]

\* The turns collected so far are split into three consecutive parts; each
\* part is aggregated, and the three results are merged in both groupings.
MergeThree(i, j) ==
    /\ aggregated.pc = "idle"
    /\ LET n == Len(responseTimes)
           a == aggregateResponseTimes(SubSeq(responseTimes, 1, i))
           b == aggregateResponseTimes(SubSeq(responseTimes, i + 1, j))
           c == aggregateResponseTimes(SubSeq(responseTimes, j + 1, n))
       IN  aggregated' =
             [pc |-> "merged", a |-> a, b |-> b, c |-> c,
              left |-> mergeProcessedData(<<mergeProcessedData(<<a, b>>), c>>),
              right |-> mergeProcessedData(<<a, mergeProcessedData(<<b, c>>)>>)]
    /\ UNCHANGED <<responseTimes, segVars, parseVars, streakVars, cacheVars, watchVars>>

NextMerge ==
    \/ \E rt \in ResponseTimes : AddResponseTime(rt)
    \/ \E i \in 0..MaxTurns, j \in 0..MaxTurns :
          i <= j /\ j <= Len(responseTimes) /\ MergeThree(i, j)

SpecMerge == Init /\ [][NextMerge]_vars

-----------------------------------------------------------------------------
(* C21: merging is associative                                             *)

\* Two quotients that are the same number.
RatioEq(a, b) == a.num * b.den = b.num * a.den

\* The dates that more than one of the three inputs has a bucket for: their
\* merged percentiles are taken of averages, those of the other dates are
\* the latencies the inputs carry.
MergedDates ==
    LET a == DOMAIN aggregated.a.daily
        b == DOMAIN aggregated.b.daily
        c == DOMAIN aggregated.c.daily
    IN  (a \cap b) \cup (a \cap c) \cup (b \cap c)

SameBucket(x, y, merged) ==
    /\ x.date = y.date
    /\ x.responseCount = y.responseCount
    /\ x.totalResponseTimeMs = y.totalResponseTimeMs
    /\ RatioEq(x.averageResponseTimeMs, y.averageResponseTimeMs)
    /\ x.sessions = y.sessions
    /\ IF merged
       THEN /\ RatioEq(x.percentiles.p50, y.percentiles.p50)
            /\ RatioEq(x.percentiles.p90, y.percentiles.p90)
            /\ RatioEq(x.percentiles.p99, y.percentiles.p99)
       ELSE x.percentiles = y.percentiles

\* C21: mergeProcessedData is associative: merge(merge(a, b), c) equals
\* merge(a, merge(b, c)) in every field: the daily counts, totals, averages,
\* percentiles and session sets, the session summaries and the global
\* summary.
C21_MergeAssociative ==
    aggregated.pc = "merged" =>
       LET l == aggregated.left
           r == aggregated.right
       IN  /\ DOMAIN l.daily = DOMAIN r.daily
           /\ \A d \in DOMAIN l.daily :
                 SameBucket(l.daily[d], r.daily[d], d \in MergedDates)
           /\ l.sessions = r.sessions
           /\ l.summary.totalResponses = r.summary.totalResponses
           /\ l.summary.totalResponseTimeMs = r.summary.totalResponseTimeMs
           /\ RatioEq(l.summary.averageResponseTimeMs, r.summary.averageResponseTimeMs)
           /\ l.summary.uniqueSessions = r.summary.uniqueSessions
           /\ l.summary.dateRange = r.summary.dateRange

-----------------------------------------------------------------------------
(* calculateResponseTimes, filterOutliers, processTranscript and           *)
(* streamProcessTranscript                                                 *)

\* new Date(timestamp).getTime(), in ms after 10:00; NaN for a string that
\* is no date.
GetTime(timestamp) ==
    CASE timestamp = "10:00" -> 0
      [] timestamp = "10:01" -> 60000
      [] timestamp = "10:07" -> 420000
      [] OTHER -> NaN

\* The lines of the transcripts that are paired.
PairLines ==
    { MalformedLine,
      ObjectLine("user", "10:00", "absent", "hello"),
      ObjectLine("user", "10:01", "absent", "again"),
      ObjectLine("user", "10:01", "absent", "absent"),
      ObjectLine("user", "not a date", "absent", "hello"),
      ObjectLine("assistant", "10:00", "absent", "early"),
      ObjectLine("assistant", "10:01", "absent", "hi"),
      ObjectLine("assistant", "10:07", "absent", "late"),
      ObjectLine("assistant", "10:07", "absent", "absent"),
      ObjectLine("system", "10:01", "absent", "note") }

\* if (entry.message): the field is present and not the empty string.
HasMessage(entry) == entry.message \notin {"absent", ""}

\* The ResponseTime pushed for the user entry at position i and the
\* assistant entry at position j; the two positions are kept with it.
PairedResponseTime(entries, i, j, sessionId) ==
    [userMessageTimestamp |-> entries[i].timestamp,
     assistantMessageTimestamp |-> entries[j].timestamp,
     responseTimeMs |-> TimeDiff(GetTime(entries[j].timestamp),
                                 GetTime(entries[i].timestamp)),
     sessionId |-> sessionId,
     userIndex |-> i, assistantIndex |-> j]

\* Recording every pairing, whatever its difference.
IsPositiveAlways(responseTimeMs) == TRUE

\* if (responseTimeMs > 0): false for NaN
IsPositive(responseTimeMs) == responseTimeMs # NaN /\ responseTimeMs > 0

\* A pairing that leaves the user message pending.
AfterPairingKeep(lastUserMessage) == lastUserMessage

\* lastUserMessage = null, after a match (0 stands for null)
AfterPairing(lastUserMessage) == 0

\* for (const entry of entries) { ... }: lastUserMessage is the position of
\* the stored user entry.
RECURSIVE PairFrom(_, _, _, _, _)
PairFrom(entries, k, lastUserMessage, acc, sessionId) ==
    IF k > Len(entries) THEN acc
    ELSE LET entry == entries[k] IN
         IF entry.type = "user" /\ HasMessage(entry)
         THEN PairFrom(entries, k + 1, k, acc, sessionId)
         ELSE IF entry.type = "assistant" /\ HasMessage(entry) /\ lastUserMessage # 0
         THEN LET rt == PairedResponseTime(entries, lastUserMessage, k, sessionId)
              IN  PairFrom(entries, k + 1, AfterPairing(lastUserMessage),
                           IF IsPositive(rt.responseTimeMs)
                           THEN Append(acc, rt) ELSE acc,
                           sessionId)
         ELSE IF entry.type = "user" /\ ~HasMessage(entry)
         THEN PairFrom(entries, k + 1, 0, acc, sessionId)
         ELSE PairFrom(entries, k + 1, lastUserMessage, acc, sessionId)

calculateResponseTimes(entries, sessionId) == PairFrom(entries, 1, 0, <<>>, sessionId)

\* An optional numeric option: not given, or given with a value.
NotGiven == [given |-> FALSE, value |-> 0]
Given(v) == [given |-> TRUE, value |-> v]

\* maxResponseTimeMs: number = 5 * 60 * 1000 (the default applies to
\* undefined only); responseTimes.filter(rt => rt.responseTimeMs <= max)
filterOutliers(rts, maxResponseTimeMs) ==
    LET max == IF maxResponseTimeMs.given THEN maxResponseTimeMs.value
               ELSE 5 * 60 * 1000
    IN  SelectSeq(rts, LAMBDA rt : rt.responseTimeMs <= max)

\* options: filterOutliers is "undefined", "true" or "false".
Options == [filterOutliers : {"undefined", "true", "false"},
            maxResponseTimeMs : {NotGiven, Given(0), Given(60000), Given(600000)}]

\* parseTranscriptFile, calculateResponseTimes, then filterOutliers unless
\* options.filterOutliers === false.
processTranscript(lines, options) ==
    LET parsed == ParseLines(lines, 1, [file |-> "idle", analyzer |-> "idle",
                                        entries |-> <<>>, results |-> <<>>])
        calculated == calculateResponseTimes(parsed.entries, "session-1")
    IN  [entries |-> parsed.entries,
         calculated |-> calculated,
         responseTimes |-> IF options.filterOutliers # "false"
                           THEN filterOutliers(calculated, options.maxResponseTimeMs)
                           ELSE calculated]

\* options?.maxResponseTimeMs || 5 * 60 * 1000: the default replaces every
\* falsy value.
StreamMaxResponseTime(options) ==
    IF options.maxResponseTimeMs.given /\ options.maxResponseTimeMs.value # 0
    THEN options.maxResponseTimeMs.value
    ELSE 5 * 60 * 1000

\* The onEntry callback of streamProcessTranscript, entry by entry; the
\* result is the sequence of calls of onResponseTime.
RECURSIVE StreamFrom(_, _, _, _, _)
StreamFrom(entries, k, lastUserMessage, delivered, options) ==
    IF k > Len(entries) THEN delivered
    ELSE LET entry == entries[k] IN
         IF entry.type = "user" /\ HasMessage(entry)
         THEN StreamFrom(entries, k + 1, k, delivered, options)
         ELSE IF entry.type = "assistant" /\ HasMessage(entry) /\ lastUserMessage # 0
         THEN LET rt == PairedResponseTime(entries, lastUserMessage, k, "session-1")
              IN  StreamFrom(entries, k + 1, 0,
                      IF /\ IsPositive(rt.responseTimeMs)
                         /\ \/ options.filterOutliers = "false"
                            \/ rt.responseTimeMs <= StreamMaxResponseTime(options)
                      THEN Append(delivered, rt) ELSE delivered,
                      options)
         ELSE IF entry.type = "user" /\ ~HasMessage(entry)
         THEN StreamFrom(entries, k + 1, 0, delivered, options)
         ELSE StreamFrom(entries, k + 1, lastUserMessage, delivered, options)

\* streamTranscriptFile hands every entry parseTranscriptLine returns to the
\* callback, in file order.
streamProcessTranscript(lines, options) ==
    LET parsed == ParseLines(lines, 1, [file |-> "idle", analyzer |-> "idle",
                                        entries |-> <<>>, results |-> <<>>])
    IN  StreamFrom(parsed.entries, 1, 0, <<>>, options)

ProcessTranscript(options) ==
    /\ parser.file = "idle" /\ parser.analyzer = "idle"
    /\ LET r == processTranscript(fileLines, options)
       IN  parser' = [file |-> "processed", analyzer |-> "idle", options |-> options,
                      entries |-> r.entries, calculated |-> r.calculated,
                      responseTimes |-> r.responseTimes]
    /\ UNCHANGED <<fileLines, segVars, aggVars, streakVars, cacheVars, watchVars>>

\* The same file is then streamed with the same options.
StreamProcessTranscript ==
    /\ parser.file = "processed"
    /\ parser' = [parser EXCEPT !.file = "streamed"] @@
                 [delivered |-> streamProcessTranscript(fileLines, parser.options)]
    /\ UNCHANGED <<fileLines, segVars, aggVars, streakVars, cacheVars, watchVars>>

NextPair ==
    \/ \E l \in PairLines : WriteLine(l)
    \/ \E options \in Options : ProcessTranscript(options)
    \/ StreamProcessTranscript

SpecPair == Init /\ [][NextPair]_vars

-----------------------------------------------------------------------------
(* C22, C23, C26: pairing                                                  *)

Processed == parser.file \in {"processed", "streamed"}

IsUserMessage(e) == e.type = "user" /\ e.message \notin {"absent", ""}

IsAssistantMessage(e) == e.type = "assistant" /\ e.message \notin {"absent", ""}

C23_PositiveDifference ==
    Processed =>
       \A n \in 1..Len(parser.calculated) :
          LET rt == parser.calculated[n]
              userTime == GetTime(parser.entries[rt.userIndex].timestamp)
              assistantTime == GetTime(parser.entries[rt.assistantIndex].timestamp)
          IN  /\ userTime # NaN /\ assistantTime # NaN
              /\ rt.responseTimeMs = assistantTime - userTime
              /\ rt.responseTimeMs > 0

\* A user message at 10:01 answered at 10:00 gave no ResponseTime.
C23_Witness ==
    /\ Processed
    /\ Len(parser.entries) = 2
    /\ IsUserMessage(parser.entries[1]) /\ parser.entries[1].timestamp = "10:01"
    /\ IsAssistantMessage(parser.entries[2]) /\ parser.entries[2].timestamp = "10:00"
    /\ parser.calculated = <<>>

\* C26: For the same file and the same options streamProcessTranscript
\* delivers to onResponseTime exactly the sequence of ResponseTimes that
\* processTranscript returns.
C26_StreamEqualsBatch ==
    parser.file = "streamed" => parser.delivered = parser.responseTimes

-----------------------------------------------------------------------------
(* filterByDateRange                                                       *)

\* new Date(date) of a 'YYYY-MM-DD' key: midnight UTC of that day.
DateObj(date) == date * MS_PER_DAY

\* A range that leaves out a bucket dated exactly `from`.
InRangeAfterFrom(dateObj, from, to) == dateObj > from /\ dateObj <= to

\* dateObj >= from && dateObj <= to
InRange(dateObj, from, to) == dateObj >= from /\ dateObj <= to

filterByDateRange(data, from, to) ==
    LET kept == { date \in DOMAIN data.daily : InRange(DateObj(date), from, to) }
        filteredDaily == [date \in kept |-> data.daily[date]]
        relevantSessions == UNION { data.daily[date].sessions : date \in kept }
        filteredSessions == [sessionId \in relevantSessions \cap DOMAIN data.sessions |->
                                data.sessions[sessionId]]
    IN  [daily |-> filteredDaily,
         sessions |-> filteredSessions,
         summary |-> SummaryOfMaps(filteredDaily, filteredSessions)]

\* The ends of a range: midnight and noon UTC of the first day of TurnTimes,
\* midnight of the second.
RangeEnds == {0, 43200000, 86400000}

\* The turns collected so far are aggregated and the result is filtered.
FilterByDateRange(from, to) ==
    /\ aggregated.pc = "idle"
    /\ LET data == aggregateResponseTimes(responseTimes)
       IN  aggregated' = [pc |-> "filtered", data |-> data, from |-> from, to |-> to,
                          filtered |-> filterByDateRange(data, from, to)]
    /\ UNCHANGED <<responseTimes, segVars, parseVars, streakVars, cacheVars, watchVars>>

NextFilter ==
    \/ \E rt \in ResponseTimes : AddResponseTime(rt)
    \/ \E from \in RangeEnds, to \in RangeEnds : FilterByDateRange(from, to)

SpecFilter == Init /\ [][NextFilter]_vars

\* The dates of the buckets whose midnight lies in [from, to].
RetainedDates ==
    { date \in DOMAIN aggregated.data.daily :
         aggregated.from <= date * MS_PER_DAY /\ date * MS_PER_DAY <= aggregated.to }

\* C24: filterByDateRange(data, from, to) returns exactly the daily buckets
\* whose date lies in [from, to], both ends included, exactly the sessions
\* that appear in a retained bucket, and a summary whose totalResponses and
\* totalResponseTimeMs are the sums over the retained buckets, with average
\* 0 when nothing is retained.
C24_FilterByDateRange ==
    aggregated.pc = "filtered" =>
       LET data == aggregated.data
           filtered == aggregated.filtered
           retainedTurns == { k \in 1..Len(responseTimes) :
                                 DateOf(responseTimes[k].userMessageTimestamp) \in RetainedDates }
       IN  /\ DOMAIN filtered.daily = RetainedDates
           /\ \A date \in RetainedDates : filtered.daily[date] = data.daily[date]
           /\ DOMAIN filtered.sessions =
                 { sessionId \in DOMAIN data.sessions :
                      \E date \in RetainedDates : sessionId \in data.daily[date].sessions }
           /\ DOMAIN filtered.sessions =
                 { responseTimes[k].sessionId : k \in retainedTurns }
           /\ \A sessionId \in DOMAIN filtered.sessions :
                 filtered.sessions[sessionId] = data.sessions[sessionId]
           /\ filtered.summary.totalResponses =
                 SumField(data.daily, RetainedDates, "responseCount")
           /\ filtered.summary.totalResponseTimeMs =
                 SumField(data.daily, RetainedDates, "totalResponseTimeMs")
           /\ filtered.summary.totalResponses = Cardinality(retainedTurns)
           /\ filtered.summary.totalResponseTimeMs = LatencyOver(retainedTurns)
           /\ filtered.summary.uniqueSessions = Cardinality(DOMAIN filtered.sessions)
           /\ RetainedDates = {} => filtered.summary.averageResponseTimeMs.num = 0
           /\ RetainedDates # {} =>
                 IsQuotient(filtered.summary.averageResponseTimeMs,
                            LatencyOver(retainedTurns), Cardinality(retainedTurns))

\* Turns of two sessions over two days, filtered from and to the second
\* day: one bucket and one session are kept.
C24_Witness ==
    /\ aggregated.pc = "filtered"
    /\ aggregated.from = MS_PER_DAY /\ aggregated.to = MS_PER_DAY
    /\ Cardinality(DOMAIN aggregated.data.daily) = 2
    /\ Cardinality(DOMAIN aggregated.data.sessions) = 2
    /\ DOMAIN aggregated.filtered.daily = {1}
    /\ Cardinality(DOMAIN aggregated.filtered.sessions) = 1
    /\ aggregated.filtered.summary.totalResponses = 2

-----------------------------------------------------------------------------
(* C25: the emitted Turns are disjoint                                     *)

\* C25: The Turns emitted for one log are in stream order and pairwise
\* disjoint: in each Turn the trigger comes before the first assistant
\* event, which is not after the last, and the trigger of the next Turn lies
\* strictly after the last assistant event of the Turn before it.
C25_TurnsDisjoint ==
    Done =>
       /\ \A n \in 1..Len(sequences) :
             /\ sequences[n].i < sequences[n].firstAssistantIndex
             /\ sequences[n].firstAssistantIndex <= sequences[n].lastAssistantIndex
       /\ \A n \in 1..(Len(sequences) - 1) :
             sequences[n + 1].i > sequences[n].lastAssistantIndex

\* Two Turns were emitted, the second triggered by the entry right after the
\* last assistant event of the first.
C25_Witness ==
    /\ Done
    /\ Len(sequences) = 2
    /\ sequences[2].i = sequences[1].lastAssistantIndex + 1

-----------------------------------------------------------------------------
(* CacheManager                                                            *)

\* Ticks of the clock.
MaxTicks == 2

\* this.ttl = options.ttl || 3600000
TTL == 3600000

\* this.useFileCache = options.useFileCache ?? true
useFileCache == TRUE

\* The lists of session files handed to get and invalidate, and the ones
\* data are computed and stored for.
PathLists == {<<"a">>, <<"a", "b">>, <<"b", "a">>}
SetLists == {<<"a", "b">>, <<"b", "a">>}

PathRank(p) == IF p = "a" THEN 1 ELSE 2

\* sessionFiles.map(f => f.filePath).sort().join(':'), then md5: the sorted
\* list of the paths stands for its digest.
generateCacheKey(sessionFiles) ==
    IF Len(sessionFiles) = 2 /\ PathRank(sessionFiles[1]) > PathRank(sessionFiles[2])
    THEN <<sessionFiles[2], sessionFiles[1]>>
    ELSE sessionFiles

\* md5 of the file's content
calculateFileHash(files, filePath) == [md5 |-> files[filePath]]

\* An entry that never expires.
ExpiredNever(now, timestamp) == FALSE

\* Date.now() - entry.timestamp > this.ttl
Expired(now, timestamp) == now - timestamp > TTL

\* A comparison that accepts every recorded hash.
HashChangedNever(entry, files, filePath) == filePath \notin DOMAIN entry.fileHashes

\* !cachedHash || cachedHash !== currentHash
HashChanged(entry, files, filePath) ==
    \/ filePath \notin DOMAIN entry.fileHashes
    \/ entry.fileHashes[filePath] # calculateFileHash(files, filePath)

isValidCache(entry, sessionFiles, files, now) ==
    /\ ~Expired(now, entry.timestamp)
    /\ \A k \in 1..Len(sessionFiles) : ~HashChanged(entry, files, sessionFiles[k])

serializeProcessedData(data) == [json |-> data]

deserializeProcessedData(serialized) == serialized.json

\* What get returns.
Null == [null |-> TRUE, data |-> <<>>]
Data(d) == [null |-> FALSE, data |-> d]

\* get(sessionFiles): the in-memory entry first, then the cache file, which
\* is copied into memory when it is valid.  The result and the new map.
get(cm, sessionFiles) ==
    LET cacheKey == generateCacheKey(sessionFiles)
    IN  IF /\ cacheKey \in DOMAIN cm.cache
           /\ isValidCache(cm.cache[cacheKey], sessionFiles, cm.files, cm.now)
        THEN [result |-> Data(cm.cache[cacheKey].data), cache |-> cm.cache]
        ELSE IF useFileCache /\ cacheKey \in DOMAIN cm.disk
        THEN LET fileEntry == cm.disk[cacheKey]
                 entry == [data |-> deserializeProcessedData(fileEntry.data),
                           timestamp |-> fileEntry.timestamp,
                           fileHashes |-> fileEntry.fileHashes]
             IN  IF isValidCache(entry, sessionFiles, cm.files, cm.now)
                 THEN [result |-> Data(entry.data),
                       cache |-> [k \in DOMAIN cm.cache \cup {cacheKey} |->
                                     IF k = cacheKey THEN entry ELSE cm.cache[k]]]
                 ELSE [result |-> Null, cache |-> cm.cache]
        ELSE [result |-> Null, cache |-> cm.cache]

\* set(sessionFiles, data): the files are hashed as they are now.
set(cm, sessionFiles, data) ==
    LET cacheKey == generateCacheKey(sessionFiles)
        fileHashes == [p \in { sessionFiles[k] : k \in 1..Len(sessionFiles) } |->
                          calculateFileHash(cm.files, p)]
        entry == [data |-> data, timestamp |-> cm.now, fileHashes |-> fileHashes]
        serialized == [data |-> serializeProcessedData(data),
                       timestamp |-> entry.timestamp,
                       fileHashes |-> entry.fileHashes]
    IN  [cache |-> [k \in DOMAIN cm.cache \cup {cacheKey} |->
                       IF k = cacheKey THEN entry ELSE cm.cache[k]],
         disk |-> IF useFileCache
                  THEN [k \in DOMAIN cm.disk \cup {cacheKey} |->
                           IF k = cacheKey THEN serialized ELSE cm.disk[k]]
                  ELSE cm.disk,
         entry |-> entry]

\* invalidate(sessionFiles): the entry of the key leaves memory and disk.
invalidate(cm, sessionFiles) ==
    LET cacheKey == generateCacheKey(sessionFiles)
    IN  [cache |-> [k \in DOMAIN cm.cache \ {cacheKey} |-> cm.cache[k]],
         disk |-> IF useFileCache
                  THEN [k \in DOMAIN cm.disk \ {cacheKey} |-> cm.disk[k]]
                  ELSE cm.disk]

\* invalidate(): this.cache.clear(), and every file of the cache directory
\* is unlinked.
invalidateAll(cm) == [cache |-> <<>>, disk |-> IF useFileCache THEN <<>> ELSE cm.disk]

\* A session file is rewritten.
WriteFile(p) ==
    /\ cacheManager' = [cacheManager EXCEPT !.files[p] = 3 - @,
                                            !.got = [pc |-> "none"]]
    /\ UNCHANGED <<segVars, parseVars, aggVars, streakVars, watchVars>>

\* Time passes: one TTL.
Tick ==
    /\ cacheManager.now < MaxTicks * TTL
    /\ cacheManager' = [cacheManager EXCEPT !.now = @ + TTL, !.got = [pc |-> "none"]]
    /\ UNCHANGED <<segVars, parseVars, aggVars, streakVars, watchVars>>

\* The caller reads the session files and computes the data: the data are
\* the contents they were computed from.
Compute(sessionFiles) ==
    /\ cacheManager.computed.pc = "none"
    /\ cacheManager' =
          [cacheManager EXCEPT
              !.got = [pc |-> "none"],
              !.computed =
                  [pc |-> "computed", sessionFiles |-> sessionFiles,
                   data |-> [p \in { sessionFiles[k] : k \in 1..Len(sessionFiles) } |->
                                cacheManager.files[p]]]]
    /\ UNCHANGED <<segVars, parseVars, aggVars, streakVars, watchVars>>

\* The caller stores what it computed.  history is the entry of the last set
\* of each key that was not invalidated since.
Set ==
    /\ cacheManager.computed.pc = "computed"
    /\ LET r == set(cacheManager, cacheManager.computed.sessionFiles,
                    cacheManager.computed.data)
           cacheKey == generateCacheKey(cacheManager.computed.sessionFiles)
       IN  cacheManager' =
              [cacheManager EXCEPT
                  !.cache = r.cache, !.disk = r.disk,
                  !.computed = [pc |-> "none"],
                  !.got = [pc |-> "none"],
                  !.history = [k \in DOMAIN cacheManager.history \cup {cacheKey} |->
                                  IF k = cacheKey THEN r.entry
                                  ELSE cacheManager.history[k]]]
    /\ UNCHANGED <<segVars, parseVars, aggVars, streakVars, watchVars>>

\* got keeps the call and its result until the next operation.
Get(sessionFiles) ==
    /\ LET r == get(cacheManager, sessionFiles)
       IN  cacheManager' =
              [cacheManager EXCEPT
                  !.cache = r.cache,
                  !.got = [pc |-> "got", sessionFiles |-> sessionFiles,
                           result |-> r.result]]
    /\ UNCHANGED <<segVars, parseVars, aggVars, streakVars, watchVars>>

Invalidate(sessionFiles) ==
    /\ LET r == invalidate(cacheManager, sessionFiles)
           cacheKey == generateCacheKey(sessionFiles)
       IN  cacheManager' =
              [cacheManager EXCEPT
                  !.cache = r.cache, !.disk = r.disk,
                  !.got = [pc |-> "none"],
                  !.history = [k \in DOMAIN cacheManager.history \ {cacheKey} |->
                                  cacheManager.history[k]]]
    /\ UNCHANGED <<segVars, parseVars, aggVars, streakVars, watchVars>>

InvalidateAll ==
    /\ LET r == invalidateAll(cacheManager)
       IN  cacheManager' = [cacheManager EXCEPT !.cache = r.cache, !.disk = r.disk,
                                                !.got = [pc |-> "none"],
                                                !.history = <<>>]
    /\ UNCHANGED <<segVars, parseVars, aggVars, streakVars, watchVars>>

\* The process ends and a new CacheManager is constructed over the same
\* cache directory.
Restart ==
    /\ cacheManager.cache # <<>>
    /\ cacheManager' = [cacheManager EXCEPT !.cache = <<>>,
                                            !.computed = [pc |-> "none"],
                                            !.got = [pc |-> "none"]]
    /\ UNCHANGED <<segVars, parseVars, aggVars, streakVars, watchVars>>

NextCache ==
    \/ \E p \in Paths : WriteFile(p)
    \/ Tick
    \/ \E sessionFiles \in SetLists : Compute(sessionFiles)
    \/ Set
    \/ \E sessionFiles \in PathLists : Get(sessionFiles)
    \/ \E sessionFiles \in PathLists : Invalidate(sessionFiles)
    \/ InvalidateAll
    \/ Restart

SpecCache == Init /\ [][NextCache]_vars

PathsOf(sessionFiles) == { sessionFiles[k] : k \in 1..Len(sessionFiles) }

\* C27: get(files) returns cached data only if a set() for the same set of
\* file paths was not invalidated since, the entry is no older than the TTL
\* and the content hash of every file is the one set() recorded; it returns
\* null once a file's content differs, the TTL has elapsed or invalidate()
\* has run.
C27_GetOnlyValid ==
    cacheManager.got.pc = "got" =>
       LET got == cacheManager.got
           history == cacheManager.history
           stored == { k \in DOMAIN history : PathsOf(k) = PathsOf(got.sessionFiles) }
           Valid(k) ==
               /\ cacheManager.now - history[k].timestamp <= TTL
               /\ \A p \in PathsOf(got.sessionFiles) :
                     history[k].fileHashes[p] = [md5 |-> cacheManager.files[p]]
       IN  /\ ~got.result.null =>
                 \E k \in stored : Valid(k) /\ got.result.data = history[k].data
           /\ (\A k \in stored : ~Valid(k)) => got.result = Null

\* Data stored for <<a, b>> were returned for <<b, a>>, exactly one TTL
\* after they were stored.
C27_Witness ==
    /\ cacheManager.got.pc = "got"
    /\ cacheManager.got.sessionFiles = <<"b", "a">>
    /\ ~cacheManager.got.result.null
    /\ cacheManager.now = TTL
    /\ <<"a", "b">> \in DOMAIN cacheManager.history
    /\ cacheManager.history[<<"a", "b">>].timestamp = 0

\* C28: The data get() returns were computed from the file contents whose
\* hashes are stored with them: when a file is rewritten after the caller
\* computed the data and before set() hashes it, a later get() does not
\* return these data while the file keeps its new content.
C28_DataMatchesHashedContent ==
    (cacheManager.got.pc = "got" /\ ~cacheManager.got.result.null) =>
       \A p \in PathsOf(cacheManager.got.sessionFiles) :
          cacheManager.got.result.data[p] = cacheManager.files[p]

-----------------------------------------------------------------------------
(* SessionWatcher                                                          *)

\* The versions of a session file: its lastModified and size.
Versions == {1, 2}

\* A deleted file that stays in knownFiles.
ForgetFileNever(knownFiles, filePath) == knownFiles

\* this.knownFiles.delete(filePath)
ForgetFile(knownFiles, filePath) == [knownFiles EXCEPT ![filePath] = 0]

\* The event scanFiles finds for one path: seen is what finder.find()
\* returned for it (0: no session), known is the entry of knownFiles.
\* The first loop visits the sessions found, the second the known files
\* that were not found.
scanFilesEvent(known, seen) ==
    IF seen # 0
    THEN IF known = 0 THEN "added"
         ELSE IF seen # known THEN "modified"
         ELSE "none"
    ELSE IF known # 0 THEN "deleted" ELSE "none"

\* The event of the debounced handler of handleFileChange.
handleFileChangeEvent(known, seen) ==
    IF seen # 0 /\ known = 0 THEN "added"
    ELSE IF seen # 0 /\ known # 0
    THEN IF seen # known THEN "modified" ELSE "none"
    ELSE IF seen = 0 /\ known # 0 THEN "deleted"
    ELSE "none"

\* knownFiles after the event: set for added and modified, delete for deleted.
KnownAfter(knownFiles, filePath, event, seen) ==
    IF event \in {"added", "modified"} THEN [knownFiles EXCEPT ![filePath] = seen]
    ELSE IF event = "deleted" THEN ForgetFile(knownFiles, filePath)
    ELSE knownFiles

\* notifyCallbacks(event, file): every registered callback is called.  The
\* record kept for the path: the event, whether the path was in knownFiles
\* when the event was found, and the event delivered before it.
notifyCallbacks(w, knownBefore, filePath, event) ==
    IF event # "none" /\ w.callbacks
    THEN [w EXCEPT !.delivered[filePath] =
                       [event |-> event,
                        known |-> knownBefore[filePath] # 0,
                        prev |-> w.delivered[filePath].event],
                   !.invokedAfterClose = @ \/ w.closed]
    ELSE w

\* The body of scanFiles after finder.find() returned sessions.
RECURSIVE ScanPaths(_, _, _)
ScanPaths(w, sessions_, paths) ==
    IF paths = {} THEN w
    ELSE LET filePath == CHOOSE p \in paths : TRUE
             event == scanFilesEvent(w.knownFiles[filePath], sessions_[filePath])
             w1 == [w EXCEPT !.knownFiles =
                        KnownAfter(w.knownFiles, filePath, event, sessions_[filePath])]
         IN  ScanPaths(notifyCallbacks(w1, w.knownFiles, filePath, event),
                       sessions_, paths \ {filePath})

scanFiles(w, sessions_) == ScanPaths(w, sessions_, WatchPaths)

\* A file of the watched directory is created, rewritten or removed.
ChangeDir(filePath, v) ==
    /\ watcher.dir[filePath] # v
    /\ watcher' = [watcher EXCEPT !.dir[filePath] = v]
    /\ UNCHANGED <<segVars, parseVars, aggVars, streakVars, cacheVars>>

\* createWatcher(callback): the callback is registered and start() is
\* called; start() waits for its initial scan, and the watcher is returned.
CreateWatcher ==
    /\ watcher.pc = "new"
    /\ watcher' = [watcher EXCEPT !.pc = "scanning", !.callbacks = TRUE,
                                  !.startScan = watcher.dir]
    /\ UNCHANGED <<segVars, parseVars, aggVars, streakVars, cacheVars>>

\* The initial scan of start() returns: fs.watch and setInterval follow.
StartResume ==
    /\ watcher.pc = "scanning"
    /\ watcher' = [scanFiles(watcher, watcher.startScan) EXCEPT
                      !.pc = "started",
                      !.watcher = TRUE, !.fsActive = TRUE,
                      !.pollTimer = TRUE, !.timerActive = TRUE]
    /\ UNCHANGED <<segVars, parseVars, aggVars, streakVars, cacheVars>>

\* The poll timer fires: scanFiles is called and waits for finder.find().
\* scans is a set: of the scans that wait with the same result of find(),
\* one is kept.
Poll ==
    /\ watcher.timerActive
    /\ watcher.dir \notin watcher.scans
    /\ watcher' = [watcher EXCEPT !.scans = @ \cup {watcher.dir}]
    /\ UNCHANGED <<segVars, parseVars, aggVars, streakVars, cacheVars>>

\* rescan() is called on the watcher createWatcher returned.
Rescan ==
    /\ watcher.pc # "new" /\ ~watcher.closed
    /\ watcher.dir \notin watcher.scans
    /\ watcher' = [watcher EXCEPT !.scans = @ \cup {watcher.dir}]
    /\ UNCHANGED <<segVars, parseVars, aggVars, streakVars, cacheVars>>

\* finder.find() of a poll scan or a rescan returns.
ScanResume(sessions_) ==
    /\ sessions_ \in watcher.scans
    /\ watcher' = [scanFiles(watcher, sessions_) EXCEPT !.scans = @ \ {sessions_}]
    /\ UNCHANGED <<segVars, parseVars, aggVars, streakVars, cacheVars>>

\* The fs watcher reports a change of a .jsonl file: handleFileChange
\* replaces the debounce timer of the path (a step only when the path has
\* no timer yet: replacing a timer leaves the state as it is).
HandleFileChange(filePath) ==
    /\ watcher.fsActive
    /\ filePath \notin watcher.debounceTimers
    /\ watcher' = [watcher EXCEPT !.debounceTimers = @ \cup {filePath}]
    /\ UNCHANGED <<segVars, parseVars, aggVars, streakVars, cacheVars>>

\* The debounce timer of a path fires: the handler deletes the timer and
\* waits for finder.find().
DebounceFire(filePath) ==
    /\ filePath \in watcher.debounceTimers
    /\ watcher' = [watcher EXCEPT
                      !.debounceTimers = @ \ {filePath},
                      !.handlers = @ \cup {[filePath |-> filePath,
                                            seen |-> watcher.dir[filePath]]}]
    /\ UNCHANGED <<segVars, parseVars, aggVars, streakVars, cacheVars>>

\* finder.find() of a debounced handler returns.
HandlerResume(h) ==
    /\ h \in watcher.handlers
    /\ LET event == handleFileChangeEvent(watcher.knownFiles[h.filePath], h.seen)
           w1 == [watcher EXCEPT
                     !.handlers = @ \ {h},
                     !.knownFiles = KnownAfter(watcher.knownFiles, h.filePath,
                                               event, h.seen)]
       IN  watcher' = notifyCallbacks(w1, watcher.knownFiles, h.filePath, event)
    /\ UNCHANGED <<segVars, parseVars, aggVars, streakVars, cacheVars>>

\* close() on the watcher createWatcher returned.
Close ==
    /\ watcher.pc # "new" /\ ~watcher.closed
    /\ watcher' = [watcher EXCEPT
                      !.closed = TRUE,
                      !.fsActive = IF watcher.watcher THEN FALSE ELSE @,
                      !.watcher = FALSE,
                      !.timerActive = IF watcher.pollTimer THEN FALSE ELSE @,
                      !.pollTimer = FALSE,
                      !.debounceTimers = {},
                      !.callbacks = FALSE,
                      !.knownFiles = [p \in WatchPaths |-> 0]]
    /\ UNCHANGED <<segVars, parseVars, aggVars, streakVars, cacheVars>>

NextWatch ==
    \/ \E filePath \in WatchPaths, v \in {0} \cup Versions : ChangeDir(filePath, v)
    \/ CreateWatcher
    \/ StartResume
    \/ Poll
    \/ Rescan
    \/ \E sessions_ \in [WatchPaths -> {0} \cup Versions] : ScanResume(sessions_)
    \/ \E filePath \in WatchPaths : HandleFileChange(filePath)
    \/ \E filePath \in WatchPaths : DebounceFire(filePath)
    \/ \E filePath \in WatchPaths, seen \in {0} \cup Versions :
          HandlerResume([filePath |-> filePath, seen |-> seen])
    \/ Close

SpecWatch == Init /\ [][NextWatch]_vars

\* C29: After close() has been called no fs watcher and no poll timer is
\* active, and no callback is invoked.
C29_ClosedIsQuiet ==
    watcher.closed =>
       /\ ~watcher.fsActive
       /\ ~watcher.timerActive
       /\ ~watcher.invokedAfterClose

\* C30: For each path the events delivered follow added, modified*, deleted,
\* repeated: added is delivered only for a path that is not in knownFiles
\* and after no event or after deleted; modified and deleted only for a path
\* that is in knownFiles and after added or modified.
C30_EventPattern ==
    \A filePath \in WatchPaths :
       LET d == watcher.delivered[filePath]
       IN  /\ d.event = "added" => ~d.known /\ d.prev \in {"none", "deleted"}
           /\ d.event \in {"modified", "deleted"} =>
                 d.known /\ d.prev \in {"added", "modified"}

\* A path was deleted and added again, and a poll scan, a rescan or a
\* debounced handler is still waiting.
C30_Witness ==
    \E filePath \in WatchPaths :
       /\ watcher.delivered[filePath].event = "added"
       /\ watcher.delivered[filePath].prev = "deleted"
       /\ watcher.scans # {} /\ watcher.handlers # {}

=============================================================================
